---- MODULE Spec2Model ----
(***************************************************************************)
(* Model of the confidential output pipeline of the contract engine        *)
(* (cosmwasm/enclaves/shared/contract-engine/src/io.rs).                   *)
(*                                                                         *)
(* Byte strings are sequences of naturals.  0..255 are plain bytes (text   *)
(* is written with its ASCII codes); values from SymBase upwards are       *)
(* symbolic: a base64 character carrying one encoded byte, one symbol of   *)
(* an AES-SIV ciphertext carrying the key and the plaintext symbol, or the *)
(* SIV authentication tag carrying the key.  All three are injective, so   *)
(* decoding and decrypting are computed, not assumed.                      *)
(***************************************************************************)
EXTENDS Integers, Sequences, FiniteSets, TLC

\* ------------------------------------------------------------- bounds
\* number of key epochs of the Key Context
NumKeys == 2
\* length of a contract / code hash (64 hex characters in the program)
HashLen == 2
\* length of the nonce and of the user public key of a SecretMessage
NonceLen == 1
\* length of the callback secret
SecretLen == 1
\* longest list of messages, attributes, events and reply_params drawn
MaxMsgs == 2
MaxAttrs == 1
MaxEvents == 1
MaxReplyParams == 2
\* number of create_callback_signature calls compared with one another
MaxSigCalls == 2

\* ------------------------------------------------------------- bytes
Quote == 34
Backslash == 92
SymBase == 256
\* u64::to_be_bytes yields 8 bytes
IdBytes == 8

RECURSIVE Concat(_)
Concat(ss) == IF ss = <<>> THEN <<>> ELSE Head(ss) \o Concat(Tail(ss))

Repeat(b, n) == [i \in 1..n |-> b]

\* u64::to_be_bytes: the w low-order bytes of n, most significant first
RECURSIVE BeBytes(_, _)
BeBytes(n, w) == IF w = 0 THEN <<>> ELSE BeBytes(n \div 256, w - 1) \o <<n % 256>>
to_be_bytes(id) == BeBytes(id, IdBytes)

\* u64::from_be_bytes, the receiving side's inverse
RECURSIVE from_be_bytes(_)
from_be_bytes(s) ==
    IF s = <<>> THEN 0
    ELSE s[Len(s)] + 256 * from_be_bytes(SubSeq(s, 1, Len(s) - 1))

\* decimal digits of u64::to_string
RECURSIVE to_string(_)
to_string(n) ==
    IF n < 10 THEN <<48 + n>> ELSE to_string(n \div 10) \o <<48 + (n % 10)>>

IsPrefix(p, s) == Len(p) <= Len(s) /\ SubSeq(s, 1, Len(p)) = p
Drop(s, n) == SubSeq(s, n + 1, Len(s))

\* ------------------------------------------------------------- symbols
SymKind(v) == IF v < SymBase THEN "byte"
              ELSE CASE (v - SymBase) % 3 = 0 -> "enc"
                     [] (v - SymBase) % 3 = 1 -> "b64"
                     [] OTHER -> "tag"
SymBody(v) == (v - SymBase) \div 3
B64Sym(v) == SymBase + 3 * v + 1
EncSym(k, v) == SymBase + 3 * (v * NumKeys + (k - 1))
TagSym(k) == SymBase + 3 * (k - 1) + 2
EncKey(v) == (SymBody(v) % NumKeys) + 1
EncInner(v) == SymBody(v) \div NumKeys

\* base64::encode and Binary::from_base64
b64_encode(data) == [i \in 1..Len(data) |-> B64Sym(data[i])]
IsB64(text) == \A i \in 1..Len(text) : SymKind(text[i]) = "b64"
from_base64(text) == [i \in 1..Len(text) |-> SymBody(text[i])]

\* AESKey::encrypt_siv and its inverse (deterministic authenticated encryption)
encrypt_siv(k, s) == <<TagSym(k)>> \o [i \in 1..Len(s) |-> EncSym(k, s[i])]
IsCiphertextOf(k, c) ==
    /\ Len(c) >= 1
    /\ c[1] = TagSym(k)
    /\ \A i \in 2..Len(c) : SymKind(c[i]) = "enc" /\ EncKey(c[i]) = k
IsCiphertext(c) == \E k \in 1..NumKeys : IsCiphertextOf(k, c)
decrypt_siv(k, c) == [i \in 1..(Len(c) - 1) |-> EncInner(c[i + 1])]

\* does a symbol carry encrypted material at any depth
RECURSIVE HasEnc(_)
HasEnc(v) == CASE SymKind(v) = "byte" -> FALSE
               [] SymKind(v) = "b64" -> HasEnc(SymBody(v))
               [] OTHER -> TRUE
NoEnc(s) == \A i \in 1..Len(s) : ~HasEnc(s[i])
\* a ciphertext whose plaintext holds no ciphertext: encrypted exactly once
EncryptedOnce(c) == IsCiphertext(c) /\ NoEnc(decrypt_siv(1, c))

\* ------------------------------------------------------------- JSON text
\* serde_json's string escaping: a quote and a backslash get a backslash
RECURSIVE JsonEscape(_)
JsonEscape(s) ==
    IF s = <<>> THEN <<>>
    ELSE (IF Head(s) \in {Quote, Backslash} THEN <<Backslash, Head(s)>>
          ELSE <<Head(s)>>) \o JsonEscape(Tail(s))
JsonString(s) == <<Quote>> \o JsonEscape(s) \o <<Quote>>

\* str::trim_start_matches / trim_end_matches of one character
RECURSIVE trim_start_matches(_, _)
trim_start_matches(s, c) ==
    IF s # <<>> /\ Head(s) = c THEN trim_start_matches(Tail(s), c) ELSE s
RECURSIVE trim_end_matches(_, _)
trim_end_matches(s, c) ==
    IF s # <<>> /\ s[Len(s)] = c
    THEN trim_end_matches(SubSeq(s, 1, Len(s) - 1), c) ELSE s

\* ------------------------------------------------------------- options
\* Option<T>: None is the empty sequence, Some(x) the one-element sequence
None == <<>>
Some(x) == <<x>>
IsSome(o) == o # <<>>
Unwrap(o) == o[1]

\* ------------------------------------------------------------- literals
\* {"generic_err":{"msg":
GenericErrOpen == <<123, 34, 103, 101, 110, 101, 114, 105, 99, 95, 101, 114, 114, 34, 58, 123, 34, 109, 115, 103, 34, 58>>
\* }}
GenericErrClose == <<125, 125>>
\* {"denom":
CoinDenomKey == <<123, 34, 100, 101, 110, 111, 109, 34, 58>>
\* ,"amount":
CoinAmountKey == <<44, 34, 97, 109, 111, 117, 110, 116, 34, 58>>
\* {"id":
ReplyIdKey == <<123, 34, 105, 100, 34, 58>>
\* ,"result":{"ok":{"events":[],"data":
ReplyResultOk == <<44, 34, 114, 101, 115, 117, 108, 116, 34, 58, 123, 34, 111, 107, 34, 58, 123, 34, 101, 118, 101, 110, 116, 115, 34, 58, 91, 93, 44, 34, 100, 97, 116, 97, 34, 58>>
\* null
JsonNull == <<110, 117, 108, 108>>
\* ,"result":{"error":
ReplyResultErr == <<44, 34, 114, 101, 115, 117, 108, 116, 34, 58, 123, 34, 101, 114, 114, 111, 114, 34, 58>>
\* ,"was_orig_msg_encrypted":true,"is_encrypted":true}
ReplyFlags == <<44, 34, 119, 97, 115, 95, 111, 114, 105, 103, 95, 109, 115, 103, 95, 101, 110, 99, 114, 121, 112, 116, 101, 100, 34, 58, 116, 114, 117, 101, 44, 34, 105, 115, 95, 101, 110, 99, 114, 121, 112, 116, 101, 100, 34, 58, 116, 114, 117, 101, 125>>

\* the sentinel that opens every reply header triple
REPLY_ENCRYPTION_MAGIC_BYTES == <<240, 159>>

\* a hash is HashLen bytes; the letter c names it
Hash(c) == Repeat(c, HashLen)

\* ------------------------------------------------------------- serde
\* serde_json::to_string of a serde_json::Value: an error is either the
\* object {"generic_err":{"msg":<text>}} or a bare JSON string
SerializeValue(v) ==
    IF v.kind = "obj" THEN GenericErrOpen \o JsonString(v.msg) \o GenericErrClose
    ELSE JsonString(v.msg)
\* serde_json::to_string of a String
SerializeString(s) == JsonString(s)
\* serde_json::to_string of a Binary: its base64 text as a JSON string
SerializeBinary(b) == JsonString(b64_encode(b))
\* json!({"generic_err":{"msg": m}})
GenericErr(m) == [kind |-> "obj", msg |-> m]

\* serde_json::to_vec of a list of coins (after to_v010_coins)
CoinJson(c) ==
    CoinDenomKey \o JsonString(c.denom) \o CoinAmountKey \o JsonString(c.amount)
        \o <<125>>
RECURSIVE CoinsJsonTail(_)
CoinsJsonTail(cs) ==
    IF cs = <<>> THEN <<>> ELSE <<44>> \o CoinJson(Head(cs)) \o CoinsJsonTail(Tail(cs))
CoinsJson(cs) ==
    IF cs = <<>> THEN <<91, 93>>
    ELSE <<91>> \o CoinJson(Head(cs)) \o CoinsJsonTail(Tail(cs)) \o <<93>>

\* ------------------------------------------------------------- key material
\* the bytes of the callback secret of epoch e
SecretBytes(e) == Repeat(200 + e, SecretLen)
\* sha2::Sha256::digest, collision-free: the digest names its input
Sha256(s) == <<-1>> \o s

\* the per-call SecretMessage context: nonce and user public key
Nonce == Repeat(78, NonceLen)
UserPublicKey == Repeat(80, NonceLen)

\* SecretMessage::to_vec and SecretMessage::from_slice
SecretMessageToVec(m) == m.nonce \o m.user_public_key \o m.msg
SecretMessageFromSliceOk(s) == Len(s) >= 2 * NonceLen
SecretMessageFromSlice(s) ==
    [nonce |-> SubSeq(s, 1, NonceLen),
     user_public_key |-> SubSeq(s, NonceLen + 1, 2 * NonceLen),
     msg |-> Drop(s, 2 * NonceLen)]

\* ------------------------------------------------------------- state
VARIABLES
    pc,                \* the stage post_process_output runs next
    output,            \* the bytes the contract produced, as a JSON document
    raw_output,        \* the RawWasmOutput the stages hand on
    reply_params,      \* Option<Vec<ReplyParams>> of the call
    is_query_output,
    is_ibc_output,
    encrypted_context, \* is_msg_encrypted: the call handles an encrypted message
    io_key,            \* KEY_MANAGER's current io exchange key (its epoch)
    callback_secret,   \* KEY_MANAGER's current callback secret (its epoch)
    error,             \* the EnclaveError the call ended with, or "none"
    wasm_output,       \* the finalized WasmOutput envelope
    parsed,            \* history: raw_output as classified
    stages,            \* history: the stages run so far, in order
    sig_calls,         \* history: create_callback_signature calls and their tags
    endorsed_report,   \* the EndorsedEpidAttestationReport verify is called on
    production,        \* the build's feature "production" (SGX_MODE_HW set)
    verify_pc,         \* the check EndorsedEpidAttestationReport::verify runs next
    validated,         \* Option<ValidatedEpidAttestation> built so far
    verify_result,     \* what verify returned: nothing yet, Ok(key) or Err
    checks             \* history: the checks run so far, in order

pipeline_vars ==
    <<pc, output, raw_output, reply_params, is_query_output, is_ibc_output,
      encrypted_context, io_key, callback_secret, error, wasm_output, parsed,
      stages, sig_calls>>
attest_vars ==
    <<endorsed_report, production, verify_pc, validated, verify_result, checks>>
vars == <<pipeline_vars, attest_vars>>

\* no attestation report is being verified
NoReport == [cert |-> <<>>, signature |-> "none", report |-> <<>>]
NoVerdict == [kind |-> "none", key |-> <<>>, err |-> "none", cause |-> "none"]
AttestIdle ==
    /\ endorsed_report = NoReport
    /\ production = FALSE
    /\ verify_pc = "idle"
    /\ validated = <<>>
    /\ verify_result = NoVerdict
    /\ checks = <<>>

\* the call's fixed arguments
contract_hash == Hash(67)
contract_addr == <<1>>
sender_addr == <<2>>

\* ------------------------------------------------------------- encryption
\* calc_encryption_key: KDF(ECDH(current io key, user public key), nonce);
\* within one call nonce and public key are fixed, the key is named by the
\* epoch of the io key it was derived from
calc_encryption_key(nonce, user_public_key) == io_key

\* reply_params is Some of an empty list: v[0] is out of bounds
IndexPanics(rp) == IsSome(rp) /\ Unwrap(rp) = <<>>

\* MAGIC + be64(sub_msg_id) + recipient_contract_hash of one ReplyParams entry
ReplyTriple(item) ==
    REPLY_ENCRYPTION_MAGIC_BYTES \o to_be_bytes(item.sub_msg_id)
        \o item.recipient_contract_hash

\* mutant: the loop does not skip entry 0
PreserializedPlaintext_NoSkip(val, rp, should_append_all_reply_params) ==
    IF IsSome(rp)
    THEN LET v == Unwrap(rp) IN
         v[1].recipient_contract_hash
            \o (IF should_append_all_reply_params
                THEN Concat([i \in 1..Len(v) |-> ReplyTriple(v[i])])
                ELSE <<>>)
            \o val
    ELSE val

\* the byte string encrypt_preserialized_string hands to encrypt_siv
PreserializedPlaintext(val, rp, should_append_all_reply_params) ==
    IF IsSome(rp)
    THEN LET v == Unwrap(rp) IN
         v[1].recipient_contract_hash
            \o (IF should_append_all_reply_params
                THEN Concat([i \in 1..(Len(v) - 1) |-> ReplyTriple(v[i + 1])])
                ELSE <<>>)
            \o val
    ELSE val

encrypt_preserialized_string(key, val, rp, should_append_all_reply_params) ==
    b64_encode(encrypt_siv(key,
        PreserializedPlaintext(val, rp, should_append_all_reply_params)))

\* serialized is serde_json::to_string(val), computed by the caller for val's type
encrypt_serializable(key, serialized, rp, should_append_all_reply_params) ==
    encrypt_preserialized_string(key,
        trim_end_matches(trim_start_matches(serialized, Quote), Quote),
        rp, should_append_all_reply_params)

\* SecretMessage::encrypt_in_place
encrypt_in_place(m) ==
    [m EXCEPT !.msg = encrypt_siv(calc_encryption_key(m.nonce, m.user_public_key), @)]

\* ------------------------------------------------------------- signing
\* mutant: the funds are left out of the digest
create_callback_signature_NoFunds(_contract_addr, msg_to_sign, funds_to_send) ==
    Sha256(SecretBytes(callback_secret) \o msg_to_sign)

create_callback_signature(_contract_addr, msg_to_sign, funds_to_send) ==
    Sha256(SecretBytes(callback_secret) \o msg_to_sign \o CoinsJson(funds_to_send))

\* ------------------------------------------------------------- reply headers
\* mutant: the id is embedded after it was reset
attach_reply_headers_to_v1_wasm_msg_IdLost(wasm_msg, reply_on, msg_id, reply_recipient_contract_hash, rp) ==
    [wasm_msg EXCEPT !.msg =
        wasm_msg.code_hash
        \o (IF reply_on # "Never"
            THEN REPLY_ENCRYPTION_MAGIC_BYTES \o to_be_bytes(0)
                    \o reply_recipient_contract_hash
            ELSE <<>>)
        \o (IF IsSome(rp)
            THEN Concat([i \in 1..Len(Unwrap(rp)) |-> ReplyTriple(Unwrap(rp)[i])])
            ELSE <<>>)
        \o wasm_msg.msg]

\* mutant: the own triple is written whatever reply_on is
attach_reply_headers_to_v1_wasm_msg_AlwaysReply(wasm_msg, reply_on, msg_id, reply_recipient_contract_hash, rp) ==
    [wasm_msg EXCEPT !.msg =
        wasm_msg.code_hash
        \o REPLY_ENCRYPTION_MAGIC_BYTES \o to_be_bytes(msg_id)
        \o reply_recipient_contract_hash
        \o (IF IsSome(rp)
            THEN Concat([i \in 1..Len(Unwrap(rp)) |-> ReplyTriple(Unwrap(rp)[i])])
            ELSE <<>>)
        \o wasm_msg.msg]

\* the payload attach_reply_headers_to_v1_wasm_msg writes into a Wasm message
attach_reply_headers_to_v1_wasm_msg(wasm_msg, reply_on, msg_id, reply_recipient_contract_hash, rp) ==
    [wasm_msg EXCEPT !.msg =
        wasm_msg.code_hash
        \o (IF reply_on # "Never"
            THEN REPLY_ENCRYPTION_MAGIC_BYTES \o to_be_bytes(msg_id)
                    \o reply_recipient_contract_hash
            ELSE <<>>)
        \o (IF IsSome(rp)
            THEN Concat([i \in 1..Len(Unwrap(rp)) |-> ReplyTriple(Unwrap(rp)[i])])
            ELSE <<>>)
        \o wasm_msg.msg]

\* RawWasmOutput::submsgs_mut: only these two variants own v1 sub-messages.
\* The function hands out the message list of the output itself (it returns
\* a mutable borrow into self), so the loop below rewrites the output.
HasSubMsgs(out) == out.variant \in {"OkV1", "OkIBCPacketReceive"}

\* mutant: the id is reset and the flag set outside the Wasm branch
AttachReplyHeadersToSubMsg_ResetAll(sub_msg, hash, rp) ==
    IF sub_msg.target = "wasm"
    THEN [attach_reply_headers_to_v1_wasm_msg(sub_msg, sub_msg.reply_on,
                                              sub_msg.id, hash, rp)
            EXCEPT !.id = 0, !.was_msg_encrypted = TRUE]
    ELSE [sub_msg EXCEPT !.id = 0, !.was_msg_encrypted = TRUE]

\* mutant: the id is reset only when a reply is expected
AttachReplyHeadersToSubMsg_KeepIdOnNever(sub_msg, hash, rp) ==
    IF sub_msg.target = "wasm"
    THEN [attach_reply_headers_to_v1_wasm_msg(sub_msg, sub_msg.reply_on,
                                              sub_msg.id, hash, rp)
            EXCEPT !.id = IF sub_msg.reply_on # "Never" THEN 0 ELSE @,
                   !.was_msg_encrypted = TRUE]
    ELSE [sub_msg EXCEPT !.was_msg_encrypted = TRUE]

\* the loop body of attach_reply_headers_to_submsgs
AttachReplyHeadersToSubMsg(sub_msg, hash, rp) ==
    IF sub_msg.target = "wasm"
    THEN [attach_reply_headers_to_v1_wasm_msg(sub_msg, sub_msg.reply_on,
                                              sub_msg.id, hash, rp)
            EXCEPT !.id = 0, !.was_msg_encrypted = TRUE]
    ELSE [sub_msg EXCEPT !.was_msg_encrypted = TRUE]

attach_reply_headers_to_submsgs(out, hash, rp) ==
    IF ~HasSubMsgs(out) THEN out
    ELSE [out EXCEPT !.messages =
            [i \in 1..Len(@) |-> AttachReplyHeadersToSubMsg(@[i], hash, rp)]]

\* ------------------------------------------------------------- field encryption
\* encrypt_wasm_submsg: Wasm payloads become nonce + public key + ciphertext
encrypt_wasm_submsg(sub_msg) ==
    IF sub_msg.target = "wasm"
    THEN [sub_msg EXCEPT !.msg = SecretMessageToVec(encrypt_in_place(
            [msg |-> @, nonce |-> Nonce, user_public_key |-> UserPublicKey]))]
    ELSE sub_msg

\* encrypt_v010_wasm_msg: code hash prepended, encrypted, then signed
encrypt_v010_wasm_msg(msg) ==
    IF msg.target = "wasm"
    THEN LET msg_to_pass == encrypt_in_place(
                [msg |-> from_base64(b64_encode(msg.code_hash \o msg.msg)),
                 nonce |-> Nonce, user_public_key |-> UserPublicKey])
         IN [msg EXCEPT !.msg = SecretMessageToVec(msg_to_pass),
                        !.callback_sig = Some(create_callback_signature(
                            contract_addr, msg_to_pass.msg, msg.funds))]
    ELSE msg

\* mutant: only the value of a flagged attribute is encrypted
EncryptAttribute_ValueOnly(key, attr) ==
    IF attr.encrypted
    THEN [attr EXCEPT !.value = encrypt_preserialized_string(key, @, None, FALSE)]
    ELSE attr

\* a log attribute with its encrypted flag set: key and value each encrypted
EncryptAttribute(key, attr) ==
    IF attr.encrypted
    THEN [attr EXCEPT
            !.key = encrypt_preserialized_string(key, @, None, FALSE),
            !.value = encrypt_preserialized_string(key, @, None, FALSE)]
    ELSE attr
EncryptAttributes(key, attrs) ==
    [i \in 1..Len(attrs) |-> EncryptAttribute(key, attrs[i])]

\* encrypt_v1_non_result_fields: sub-messages, attributes, events' attributes
encrypt_v1_non_result_fields(ok) ==
    LET encryption_key == calc_encryption_key(Nonce, UserPublicKey) IN
    [ok EXCEPT
        !.messages = [i \in 1..Len(@) |-> encrypt_wasm_submsg(@[i])],
        !.attributes = EncryptAttributes(encryption_key, @),
        !.events = [i \in 1..Len(@) |->
            [@[i] EXCEPT !.attributes = EncryptAttributes(encryption_key, @)]]]

\* the data / acknowledgement field: serialized, encrypted, decoded back to Binary
EncryptBinary(key, data, rp) ==
    from_base64(encrypt_serializable(key, SerializeBinary(data), rp, FALSE))

\* mutant: the error is encrypted without the reply prefix
EncryptErr_NoPrefix(key, err, rp) ==
    GenericErr(encrypt_serializable(key, SerializeValue(err), None, FALSE))

\* the Err branch: the serialized error, encrypted, in the generic_err wrapper
EncryptErr(key, err, rp) ==
    GenericErr(encrypt_serializable(key, SerializeValue(err), rp, FALSE))

\* the QueryOk branch: the result string goes through encrypt_serializable
EncryptQueryOk(key, ok, rp) ==
    encrypt_serializable(key, SerializeString(ok), rp, FALSE)

\* mutant: the data of an IBC output is encrypted like any other
EncryptOutputStatus_DataAllowed(out, rp, is_ibc) ==
    CASE out.variant \in {"Err", "QueryOkV010", "QueryOkV1", "OkIBCPacketReceive"} ->
            IF IndexPanics(rp) THEN "panic" ELSE "ok"
      [] out.variant \in {"OkV010", "OkV1"} ->
            IF IsSome(out.data) /\ IndexPanics(rp) THEN "panic" ELSE "ok"
      [] OTHER -> "ok"

\* how encrypt_output ends: "ok", an EnclaveError, or "panic"
EncryptOutputStatus(out, rp, is_ibc) ==
    CASE out.variant \in {"Err", "QueryOkV010", "QueryOkV1", "OkIBCPacketReceive"} ->
            IF IndexPanics(rp) THEN "panic" ELSE "ok"
      [] out.variant = "OkV010" ->
            IF IsSome(out.data) /\ IndexPanics(rp) THEN "panic" ELSE "ok"
      [] out.variant = "OkV1" ->
            IF IsSome(out.data) /\ is_ibc THEN "InternalError"
            ELSE IF IsSome(out.data) /\ IndexPanics(rp) THEN "panic" ELSE "ok"
      [] OTHER -> "ok"

encrypt_output(out, rp, is_ibc) ==
    LET encryption_key == calc_encryption_key(Nonce, UserPublicKey) IN
    CASE out.variant = "Err" ->
            [out EXCEPT !.err = EncryptErr(encryption_key, @, rp)]
      [] out.variant \in {"QueryOkV010", "QueryOkV1"} ->
            [out EXCEPT !.ok = EncryptQueryOk(encryption_key, @, rp)]
      [] out.variant = "OkV010" ->
            [out EXCEPT
                !.messages = [i \in 1..Len(@) |-> encrypt_v010_wasm_msg(@[i])],
                !.attributes = EncryptAttributes(encryption_key, @),
                !.data = IF IsSome(@)
                         THEN Some(EncryptBinary(encryption_key, Unwrap(@), rp))
                         ELSE @]
      [] out.variant = "OkV1" ->
            [encrypt_v1_non_result_fields(out) EXCEPT
                !.data = IF IsSome(@)
                         THEN Some(EncryptBinary(encryption_key, Unwrap(@), rp))
                         ELSE @]
      [] out.variant = "OkIBCPacketReceive" ->
            [encrypt_v1_non_result_fields(out) EXCEPT
                !.acknowledgement = EncryptBinary(encryption_key, @, rp)]
      [] OTHER -> out

\* ------------------------------------------------------------- callback signer
\* SecretMessage::from_slice fails on a payload shorter than nonce + public key
CallbackSigStatus(out) ==
    IF HasSubMsgs(out)
       /\ \E i \in 1..Len(out.messages) :
            /\ out.messages[i].target = "wasm"
            /\ ~SecretMessageFromSliceOk(out.messages[i].msg)
    THEN "DecryptionError" ELSE "ok"

SignSubMsg(sub_msg, addr) ==
    IF sub_msg.target = "wasm"
    THEN [sub_msg EXCEPT !.callback_sig = Some(create_callback_signature(
            addr, SecretMessageFromSlice(sub_msg.msg).msg, sub_msg.funds))]
    ELSE sub_msg

\* mutant: the sub-messages of an IBC packet-receive response are not signed
create_callback_sig_for_submsgs_V1Only(out, addr) ==
    IF out.variant # "OkV1" THEN out
    ELSE [out EXCEPT !.messages = [i \in 1..Len(@) |-> SignSubMsg(@[i], addr)]]

create_callback_sig_for_submsgs(out, addr) ==
    IF ~HasSubMsgs(out) THEN out
    ELSE [out EXCEPT !.messages = [i \in 1..Len(@) |-> SignSubMsg(@[i], addr)]]

\* ------------------------------------------------------------- reply adapter
\* serde_json::to_vec of a Reply {id, result, was_orig_msg_encrypted, is_encrypted}
ReplyJson(reply) ==
    ReplyIdKey \o SerializeBinary(reply.id)
    \o (IF reply.result.kind = "Ok"
        THEN ReplyResultOk
             \o (IF IsSome(reply.result.data)
                 THEN SerializeBinary(Unwrap(reply.result.data)) ELSE JsonNull)
             \o GenericErrClose
        ELSE ReplyResultErr \o JsonString(reply.result.err) \o <<125>>)
    \o ReplyFlags

\* err["generic_err"]["msg"].clone().to_string() with the first and the last
\* character removed; a missing key indexes to Value::Null, printed "null"
EncryptedErrorMessage(err) ==
    LET text == IF err.kind = "obj" THEN JsonString(err.msg) ELSE JsonNull
    IN SubSeq(text, 2, Len(text) - 1)

\* mutant: the projection of an Ok result leaves the data out
OutputResult_DataDropped(out) ==
    IF out.variant = "Err"
    THEN [kind |-> "Err", err |-> EncryptedErrorMessage(out.err), data |-> None]
    ELSE [kind |-> "Ok", err |-> <<>>, data |-> None]

\* the SubMsgResult adapt_output_for_reply projects from the result
OutputResult(out) ==
    IF out.variant = "Err"
    THEN [kind |-> "Err", err |-> EncryptedErrorMessage(out.err), data |-> None]
    ELSE [kind |-> "Ok", err |-> <<>>, data |-> out.data]

\* mutant: every adapted result propagates all ancestors
ShouldAppendReplyParams_Always(out) == TRUE

\* should_append_reply_params as adapt_output_for_reply sets it per variant
ShouldAppendReplyParams(out) == out.variant \in {"Err", "OkV1"}

\* get_reply_info_for_output: the encrypted id token and the signature
ReplyEncryptedId(rp, encryption_key, should_append_all_reply_params) ==
    from_base64(encrypt_preserialized_string(encryption_key,
        to_string(Unwrap(rp)[1].sub_msg_id), rp, should_append_all_reply_params))

ReplyOf(output_result, rp, encryption_key, should_append_all_reply_params) ==
    [id |-> ReplyEncryptedId(rp, encryption_key, should_append_all_reply_params),
     result |-> output_result,
     was_orig_msg_encrypted |-> TRUE,
     is_encrypted |-> TRUE]

get_reply_info_for_output(output_result, rp, encryption_key, addr, should_append_all_reply_params) ==
    LET reply == ReplyOf(output_result, rp, encryption_key,
                         should_append_all_reply_params)
    IN <<reply.id, create_callback_signature(addr, ReplyJson(reply), <<>>)>>

AdaptsForReply(out, rp) ==
    IsSome(rp) /\ out.variant \in {"Err", "OkV010", "OkV1"}

AdaptOutputStatus(out, rp) ==
    IF AdaptsForReply(out, rp) /\ IndexPanics(rp) THEN "panic" ELSE "ok"

\* mutant: the id token is not attached
adapt_output_for_reply_SigOnly(out, rp, addr) ==
    IF ~AdaptsForReply(out, rp) THEN out
    ELSE LET info == get_reply_info_for_output(
                        OutputResult(out), rp,
                        calc_encryption_key(Nonce, UserPublicKey), addr,
                        ShouldAppendReplyParams(out))
         IN [out EXCEPT !.internal_reply_enclave_sig = Some(info[2])]

adapt_output_for_reply(out, rp, addr) ==
    IF ~AdaptsForReply(out, rp) THEN out
    ELSE LET info == get_reply_info_for_output(
                        OutputResult(out), rp,
                        calc_encryption_key(Nonce, UserPublicKey), addr,
                        ShouldAppendReplyParams(out))
         IN [out EXCEPT !.internal_msg_id = Some(info[1]),
                        !.internal_reply_enclave_sig = Some(info[2])]

\* ------------------------------------------------------------- finalizer
EmptyWasmOutput ==
    [v010 |-> None, v1 |-> None, ibc_basic |-> None, ibc_packet_receive |-> None,
     ibc_open_channel |-> None, query |-> None,
     internal_reply_enclave_sig |-> None, internal_msg_id |-> None]

\* the {Ok, Err} pair every envelope key holds
OkErr(ok, err) == [ok |-> ok, err |-> err]

\* the response body an Ok variant carries into the envelope
ResponseOf(out, fields) == [f \in fields |-> out[f]]

\* mutant: the error is placed as is in every context
V010Err_AsIs(err, is_msg_encrypted) == err

\* the err of the v010 key: json!({"generic_err":{"msg":err}}) around the
\* error when the message was not encrypted
V010Err(err, is_msg_encrypted) ==
    IF is_msg_encrypted THEN err ELSE [kind |-> "wrapped", msg |-> err]

\* mutant: Ok(None) leaves the ok of the envelope null
OpenChannelOk_NoneKept(version) == version

\* the ok of the ibc_open_channel key: the response's version, "" for None
OpenChannelOk(version) ==
    Some(IF IsSome(version) THEN Unwrap(version) ELSE <<>>)

\* mutant: the Err of an IBC call is placed under ibc_basic
FinalizeErr_UnderIbcKey(out, is_query, is_ibc, is_msg_encrypted) ==
    IF is_query
    THEN [EmptyWasmOutput EXCEPT !.query = Some(OkErr(None, Some(out.err)))]
    ELSE IF is_ibc
    THEN [EmptyWasmOutput EXCEPT
            !.ibc_basic = Some(OkErr(None, Some(V010Err(out.err, is_msg_encrypted)))),
            !.internal_reply_enclave_sig = out.internal_reply_enclave_sig,
            !.internal_msg_id = out.internal_msg_id]
    ELSE [EmptyWasmOutput EXCEPT
            !.v010 = Some(OkErr(None, Some(V010Err(out.err, is_msg_encrypted)))),
            !.internal_reply_enclave_sig = out.internal_reply_enclave_sig,
            !.internal_msg_id = out.internal_msg_id]

\* the RawWasmOutput::Err arm of finalize_raw_output: is_ibc is not looked at
FinalizeErr(out, is_query, is_ibc, is_msg_encrypted) ==
    IF is_query
    THEN [EmptyWasmOutput EXCEPT !.query = Some(OkErr(None, Some(out.err)))]
    ELSE [EmptyWasmOutput EXCEPT
            !.v010 = Some(OkErr(None, Some(V010Err(out.err, is_msg_encrypted)))),
            !.internal_reply_enclave_sig = out.internal_reply_enclave_sig,
            !.internal_msg_id = out.internal_msg_id]

\* mutant: an Ok v1 result of an IBC call fills the v1 key as well
finalize_raw_output_BothKeys(out, is_query, is_ibc, is_msg_encrypted) ==
    CASE out.variant = "Err" ->
            IF is_query
            THEN [EmptyWasmOutput EXCEPT !.query = Some(OkErr(None, Some(out.err)))]
            ELSE [EmptyWasmOutput EXCEPT
                    !.v010 = Some(OkErr(None,
                        Some(V010Err(out.err, is_msg_encrypted)))),
                    !.internal_reply_enclave_sig = out.internal_reply_enclave_sig,
                    !.internal_msg_id = out.internal_msg_id]
      [] out.variant = "OkV010" ->
            [EmptyWasmOutput EXCEPT
                !.v010 = Some(OkErr(Some(ResponseOf(out,
                            {"messages", "attributes", "data"})), None)),
                !.internal_reply_enclave_sig = out.internal_reply_enclave_sig,
                !.internal_msg_id = out.internal_msg_id]
      [] out.variant = "OkV1" ->
            IF ~is_ibc
            THEN [EmptyWasmOutput EXCEPT
                    !.v1 = Some(OkErr(Some(ResponseOf(out,
                            {"messages", "attributes", "events", "data"})), None)),
                    !.internal_reply_enclave_sig = out.internal_reply_enclave_sig,
                    !.internal_msg_id = out.internal_msg_id]
            ELSE [EmptyWasmOutput EXCEPT
                    !.v1 = Some(OkErr(Some(ResponseOf(out,
                            {"messages", "attributes", "events", "data"})), None)),
                    !.ibc_basic = Some(OkErr(Some(ResponseOf(out,
                            {"messages", "attributes", "events"})), None)),
                    !.internal_reply_enclave_sig = out.internal_reply_enclave_sig,
                    !.internal_msg_id = out.internal_msg_id]
      [] out.variant \in {"QueryOkV010", "QueryOkV1"} ->
            [EmptyWasmOutput EXCEPT !.query = Some(OkErr(Some(out.ok), None))]
      [] out.variant = "OkIBCPacketReceive" ->
            [EmptyWasmOutput EXCEPT
                !.ibc_packet_receive = Some(OkErr(Some(ResponseOf(out,
                    {"messages", "attributes", "events", "acknowledgement"})), None))]
      [] OTHER ->
            [EmptyWasmOutput EXCEPT
                !.ibc_open_channel = Some(OkErr(OpenChannelOk(out.version), None))]

finalize_raw_output(out, is_query, is_ibc, is_msg_encrypted) ==
    CASE out.variant = "Err" -> FinalizeErr(out, is_query, is_ibc, is_msg_encrypted)
      [] out.variant = "OkV010" ->
            [EmptyWasmOutput EXCEPT
                !.v010 = Some(OkErr(Some(ResponseOf(out,
                            {"messages", "attributes", "data"})), None)),
                !.internal_reply_enclave_sig = out.internal_reply_enclave_sig,
                !.internal_msg_id = out.internal_msg_id]
      [] out.variant = "OkV1" ->
            IF ~is_ibc
            THEN [EmptyWasmOutput EXCEPT
                    !.v1 = Some(OkErr(Some(ResponseOf(out,
                            {"messages", "attributes", "events", "data"})), None)),
                    !.internal_reply_enclave_sig = out.internal_reply_enclave_sig,
                    !.internal_msg_id = out.internal_msg_id]
            ELSE [EmptyWasmOutput EXCEPT
                    !.ibc_basic = Some(OkErr(Some(ResponseOf(out,
                            {"messages", "attributes", "events"})), None)),
                    !.internal_reply_enclave_sig = out.internal_reply_enclave_sig,
                    !.internal_msg_id = out.internal_msg_id]
      [] out.variant \in {"QueryOkV010", "QueryOkV1"} ->
            [EmptyWasmOutput EXCEPT !.query = Some(OkErr(Some(out.ok), None))]
      [] out.variant = "OkIBCPacketReceive" ->
            [EmptyWasmOutput EXCEPT
                !.ibc_packet_receive = Some(OkErr(Some(ResponseOf(out,
                    {"messages", "attributes", "events", "acknowledgement"})), None))]
      [] OTHER ->
            [EmptyWasmOutput EXCEPT
                !.ibc_open_channel = Some(OkErr(OpenChannelOk(out.version), None))]

\* ------------------------------------------------------------- classifier
\* the fields of a response body; a variant uses the ones its schema has
EmptyBody ==
    [ok |-> <<>>, messages |-> <<>>, attributes |-> <<>>, events |-> <<>>,
     data |-> None, acknowledgement |-> <<>>, version |-> None]

NoErr == [kind |-> "obj", msg |-> <<>>]

RawWasmOutput(variant, err, body, internal_msg_id, internal_reply_enclave_sig) ==
    [variant |-> variant, err |-> err,
     internal_msg_id |-> internal_msg_id,
     internal_reply_enclave_sig |-> internal_reply_enclave_sig] @@ body

NoOutput == RawWasmOutput("None", NoErr, EmptyBody, None, None)

\* which JSON shape of an "Ok" value each schema accepts
ShapeOf(doc, key) == IF IsSome(doc[key]) THEN Unwrap(doc[key]).shape ELSE "absent"

\* mutant: the Ok variants are tried before Err and the query variants
Classify_OkFirst(doc) ==
    IF ~doc.json THEN "none"
    ELSE IF ShapeOf(doc, "Ok") = "v010" THEN "OkV010"
    ELSE IF ShapeOf(doc, "Ok") = "v1" THEN "OkV1"
    ELSE IF ShapeOf(doc, "Ok") = "ibc_receive" THEN "OkIBCPacketReceive"
    ELSE IF IsSome(doc.Err) THEN "Err"
    ELSE IF ShapeOf(doc, "Ok") = "string" THEN "QueryOkV010"
    ELSE IF ShapeOf(doc, "ok") = "string" THEN "QueryOkV1"
    ELSE IF ShapeOf(doc, "Ok") \in {"ibc_open_channel", "absent"}
         THEN "OkIBCOpenChannel"
    ELSE "none"

\* #[serde(untagged)]: the first variant, in declaration order, that the
\* document deserializes into; "none" when it is no JSON or fits no variant.
\* The Ok of OkIBCOpenChannel is an Option (finalize_raw_output matches it
\* against Some and None): a missing or null "Ok" deserializes to None.
Classify(doc) ==
    IF ~doc.json THEN "none"
    ELSE IF IsSome(doc.Err) THEN "Err"
    ELSE IF ShapeOf(doc, "Ok") = "string" THEN "QueryOkV010"
    ELSE IF ShapeOf(doc, "ok") = "string" THEN "QueryOkV1"
    ELSE IF ShapeOf(doc, "Ok") = "v010" THEN "OkV010"
    ELSE IF ShapeOf(doc, "Ok") = "v1" THEN "OkV1"
    ELSE IF ShapeOf(doc, "Ok") = "ibc_receive" THEN "OkIBCPacketReceive"
    ELSE IF ShapeOf(doc, "Ok") \in {"ibc_open_channel", "absent"}
         THEN "OkIBCOpenChannel"
    ELSE "none"

BodyOf(payload) == [f \in DOMAIN EmptyBody |-> payload[f]]

deserialize_output(doc) ==
    LET variant == Classify(doc) IN
    CASE variant = "Err" ->
            RawWasmOutput("Err", Unwrap(doc.Err), EmptyBody,
                          doc.internal_msg_id, doc.internal_reply_enclave_sig)
      [] variant = "QueryOkV1" ->
            RawWasmOutput(variant, NoErr, BodyOf(Unwrap(doc.ok)), None, None)
      [] variant \in {"OkV010", "OkV1"} ->
            RawWasmOutput(variant, NoErr, BodyOf(Unwrap(doc.Ok)),
                          doc.internal_msg_id, doc.internal_reply_enclave_sig)
      [] variant \in {"QueryOkV010", "OkIBCPacketReceive"} ->
            RawWasmOutput(variant, NoErr, BodyOf(Unwrap(doc.Ok)), None, None)
      [] variant = "OkIBCOpenChannel" ->
            RawWasmOutput(variant, NoErr,
                          IF IsSome(doc.Ok) THEN BodyOf(Unwrap(doc.Ok)) ELSE EmptyBody,
                          None, None)
      [] OTHER -> NoOutput

\* ------------------------------------------------------------- inputs
\* {}
EmptyObject == <<123, 125>>
\* {"bank":{}}
BankSend == <<123, 34, 98, 97, 110, 107, 34, 58, 123, 125, 125>>
\* boom
Boom == <<98, 111, 111, 109>>
\* one coin of "uscrt"
Coin == [denom |-> <<117, 115, 99, 114, 116>>, amount |-> <<49>>]

WasmMsg(id, reply_on, funds) ==
    [target |-> "wasm", id |-> id, reply_on |-> reply_on, code_hash |-> Hash(66),
     msg |-> EmptyObject, funds |-> funds, callback_sig |-> None,
     was_msg_encrypted |-> FALSE]
BankMsg(id, reply_on) ==
    [target |-> "bank", id |-> id, reply_on |-> reply_on, code_hash |-> <<>>,
     msg |-> BankSend, funds |-> <<>>, callback_sig |-> None,
     was_msg_encrypted |-> FALSE]

SubMsgs == {WasmMsg(258, "Always", <<Coin>>), WasmMsg(7, "Never", <<>>),
            BankMsg(9, "Error")}
V010Msgs == {WasmMsg(0, "Never", <<Coin>>), BankMsg(0, "Never")}

Attr(encrypted) == [key |-> <<107>>, value |-> <<118, 34>>, encrypted |-> encrypted]
Attrs == {Attr(TRUE), Attr(FALSE)}
Events == {[ty |-> <<101>>, attributes |-> <<Attr(FALSE), Attr(TRUE)>>]}

ListsOf(S, n) == UNION {[1..m -> S] : m \in 0..n}

Datas == {None, Some(<<100, 34>>)}

\* query results and error texts: plain, quoted, with a backslash, a JSON object
Texts == {<<97>>, <<34, 97, 34>>, <<97, 92>>, <<123, 34, 97, 34, 58, 49, 125>>}
ErrValues == {[kind |-> "obj", msg |-> Boom], [kind |-> "str", msg |-> Boom],
              [kind |-> "str", msg |-> <<97, 34>>]}

Payload(shape, body) == [shape |-> shape] @@ body
Doc(json, Err, Ok, ok, internal) ==
    [json |-> json, Err |-> Err, Ok |-> Ok, ok |-> ok,
     internal_msg_id |-> internal, internal_reply_enclave_sig |-> internal]

\* values a contract may put under the two internal keys of its own output
Internals == {None, Some(<<9>>)}

ErrDocs == {Doc(TRUE, Some(e), None, None, i) : e \in ErrValues, i \in Internals}
QueryDocs ==
    {Doc(TRUE, None, Some(Payload("string", [EmptyBody EXCEPT !.ok = t])), None, None)
        : t \in Texts}
    \cup {Doc(TRUE, None, None, Some(Payload("string", [EmptyBody EXCEPT !.ok = t])), None)
        : t \in Texts}
V010Docs ==
    {Doc(TRUE, None, Some(Payload("v010",
        [EmptyBody EXCEPT !.messages = m, !.attributes = a, !.data = d])), None, None)
        : m \in ListsOf(V010Msgs, MaxMsgs), a \in ListsOf(Attrs, MaxAttrs), d \in Datas}
V1Docs ==
    {Doc(TRUE, None, Some(Payload("v1",
        [EmptyBody EXCEPT !.messages = m, !.attributes = a, !.events = e, !.data = d])),
        None, None)
        : m \in ListsOf(SubMsgs, MaxMsgs), a \in ListsOf(Attrs, MaxAttrs),
          e \in ListsOf(Events, MaxEvents), d \in Datas}
IbcReceiveDocs ==
    {Doc(TRUE, None, Some(Payload("ibc_receive",
        [EmptyBody EXCEPT !.messages = m, !.attributes = a, !.events = e,
                          !.acknowledgement = <<107>>])), None, None)
        : m \in ListsOf(SubMsgs, MaxMsgs), a \in ListsOf(Attrs, MaxAttrs),
          e \in ListsOf(Events, MaxEvents)}
OpenChannelDocs ==
    {Doc(TRUE, None, Some(Payload("ibc_open_channel", [EmptyBody EXCEPT !.version = v])),
         None, None) : v \in {None, Some(<<118, 49>>)}}
\* an Ok response that also carries the two internal keys; an Err key beside
\* an Ok key; an "Ok" string or an Ok response beside an "ok" string; no
\* JSON at all; an object with none of the keys; an "Ok" of no known shape
OtherDocs ==
    {Doc(TRUE, None, Some(Payload(sh, EmptyBody)), None, Some(<<9>>)) : sh \in {"v010", "v1"}}
    \cup {Doc(TRUE, Some([kind |-> "obj", msg |-> Boom]),
              Some(Payload("v1", EmptyBody)), None, None),
          Doc(TRUE, None, Some(Payload("string", [EmptyBody EXCEPT !.ok = <<97>>])),
              Some(Payload("string", [EmptyBody EXCEPT !.ok = <<98>>])), None),
          Doc(TRUE, None, Some(Payload("v1", EmptyBody)),
              Some(Payload("string", [EmptyBody EXCEPT !.ok = <<98>>])), None),
          Doc(FALSE, None, None, None, None),
          Doc(TRUE, None, None, None, None),
          Doc(TRUE, None, Some(Payload("other", EmptyBody)), None, None)}

Docs == ErrDocs \cup QueryDocs \cup V010Docs \cup V1Docs \cup IbcReceiveDocs
        \cup OpenChannelDocs \cup OtherDocs

\* reply_params: absent, or the first n ancestors of the call stack
ReplyParamsEntry(i) ==
    [sub_msg_id |-> 255 + i, recipient_contract_hash |-> Hash(80 + i)]
ReplyParamsChoices ==
    {None} \cup {Some([i \in 1..n |-> ReplyParamsEntry(i)]) : n \in 0..MaxReplyParams}

\* ------------------------------------------------------------- post_process_output
\* mutant: the payloads are encrypted before the reply headers are embedded
StageOrder_EncryptFirst ==
    <<"deserialize_output", "encrypt_output", "attach_reply_headers_to_submsgs",
      "create_callback_sig_for_submsgs", "adapt_output_for_reply",
      "finalize_raw_output">>

\* the stages of post_process_output, in the order of its body
StageOrder ==
    <<"deserialize_output", "attach_reply_headers_to_submsgs", "encrypt_output",
      "create_callback_sig_for_submsgs", "adapt_output_for_reply",
      "finalize_raw_output">>

StageIndex(st) == CHOOSE i \in 1..Len(StageOrder) : StageOrder[i] = st
NextStage(st) ==
    IF StageIndex(st) < Len(StageOrder) THEN StageOrder[StageIndex(st) + 1]
    ELSE "done"

Init ==
    /\ AttestIdle
    /\ pc = StageOrder[1]
    /\ output \in Docs
    /\ reply_params \in ReplyParamsChoices
    /\ is_query_output \in BOOLEAN
    /\ is_ibc_output \in BOOLEAN
    /\ encrypted_context = TRUE
    /\ io_key = 1
    /\ callback_secret = 1
    /\ raw_output = NoOutput
    /\ parsed = NoOutput
    /\ error = "none"
    /\ wasm_output = EmptyWasmOutput
    /\ stages = <<>>
    /\ sig_calls = <<>>

\* the ? operator: the call returns the error and no output
Fail(e) ==
    /\ pc' = "failed"
    /\ error' = e
    /\ UNCHANGED <<raw_output, wasm_output, parsed>>

\* a stage returned Ok(out): the next stage gets out
Pass(st, out) ==
    /\ pc' = NextStage(st)
    /\ raw_output' = out
    /\ UNCHANGED <<error, wasm_output>>

Inputs == <<output, reply_params, is_query_output, is_ibc_output,
            encrypted_context, io_key,
            callback_secret, sig_calls>>

DeserializeOutput ==
    /\ pc = "deserialize_output"
    /\ stages' = Append(stages, pc)
    /\ IF Classify(output) = "none"
       THEN Fail("FailedToDeserialize")
       ELSE /\ Pass(pc, deserialize_output(output))
            /\ parsed' = deserialize_output(output)
    /\ UNCHANGED Inputs
    /\ UNCHANGED attest_vars

AttachReplyHeaders ==
    /\ pc = "attach_reply_headers_to_submsgs"
    /\ stages' = Append(stages, pc)
    /\ Pass(pc, attach_reply_headers_to_submsgs(raw_output, contract_hash, reply_params))
    /\ UNCHANGED <<parsed, Inputs>>
    /\ UNCHANGED attest_vars

EncryptOutput ==
    /\ pc = "encrypt_output"
    /\ stages' = Append(stages, pc)
    /\ LET status == EncryptOutputStatus(raw_output, reply_params, is_ibc_output) IN
       IF status = "ok"
       THEN Pass(pc, encrypt_output(raw_output, reply_params, is_ibc_output))
            /\ UNCHANGED parsed
       ELSE Fail(status)
    /\ UNCHANGED Inputs
    /\ UNCHANGED attest_vars

CreateCallbackSig ==
    /\ pc = "create_callback_sig_for_submsgs"
    /\ stages' = Append(stages, pc)
    /\ IF CallbackSigStatus(raw_output) = "ok"
       THEN Pass(pc, create_callback_sig_for_submsgs(raw_output, contract_addr))
            /\ UNCHANGED parsed
       ELSE Fail(CallbackSigStatus(raw_output))
    /\ UNCHANGED Inputs
    /\ UNCHANGED attest_vars

AdaptOutputForReply ==
    /\ pc = "adapt_output_for_reply"
    /\ stages' = Append(stages, pc)
    /\ IF AdaptOutputStatus(raw_output, reply_params) = "ok"
       THEN Pass(pc, adapt_output_for_reply(raw_output, reply_params, sender_addr))
            /\ UNCHANGED parsed
       ELSE Fail(AdaptOutputStatus(raw_output, reply_params))
    /\ UNCHANGED Inputs
    /\ UNCHANGED attest_vars

FinalizeRawOutput ==
    /\ pc = "finalize_raw_output"
    /\ stages' = Append(stages, pc)
    /\ pc' = NextStage(pc)
    /\ wasm_output' = finalize_raw_output(raw_output, is_query_output, is_ibc_output,
                                           encrypted_context)
    /\ UNCHANGED <<raw_output, error, parsed, Inputs>>
    /\ UNCHANGED attest_vars

Next ==
    \/ DeserializeOutput
    \/ AttachReplyHeaders
    \/ EncryptOutput
    \/ CreateCallbackSig
    \/ AdaptOutputForReply
    \/ FinalizeRawOutput

Spec == Init /\ [][Next]_vars

\* ------------------------------------------------------------- receiving side
\* what the receiver of a payload does: strip the leading reply triples
RECURSIVE StripTriples(_)
StripTriples(s) ==
    IF IsPrefix(REPLY_ENCRYPTION_MAGIC_BYTES, s)
       /\ Len(s) >= Len(REPLY_ENCRYPTION_MAGIC_BYTES) + IdBytes + HashLen
    THEN LET body == Drop(s, Len(REPLY_ENCRYPTION_MAGIC_BYTES)) IN
         <<[id |-> from_be_bytes(SubSeq(body, 1, IdBytes)),
            hash |-> SubSeq(body, IdBytes + 1, IdBytes + HashLen)]>>
            \o StripTriples(Drop(body, IdBytes + HashLen))
    ELSE <<>>
RECURSIVE AfterTriples(_)
AfterTriples(s) ==
    IF IsPrefix(REPLY_ENCRYPTION_MAGIC_BYTES, s)
       /\ Len(s) >= Len(REPLY_ENCRYPTION_MAGIC_BYTES) + IdBytes + HashLen
    THEN AfterTriples(Drop(s, Len(REPLY_ENCRYPTION_MAGIC_BYTES) + IdBytes + HashLen))
    ELSE s

\* a Wasm payload as the chain carries it: nonce, public key, ciphertext
PayloadEncrypted(m) ==
    /\ SecretMessageFromSliceOk(m.msg)
    /\ SecretMessageFromSlice(m.msg).nonce = Nonce
    /\ SecretMessageFromSlice(m.msg).user_public_key = UserPublicKey
    /\ IsCiphertext(SecretMessageFromSlice(m.msg).msg)
PayloadCiphertext(m) == SecretMessageFromSlice(m.msg).msg
\* the plaintext of a Wasm payload, decrypted when it is encrypted
PayloadPlaintext(m) ==
    IF PayloadEncrypted(m) THEN decrypt_siv(io_key, PayloadCiphertext(m)) ELSE m.msg

Ran(st) == \E i \in 1..Len(stages) : stages[i] = st
WasmIndices(out) == {i \in 1..Len(out.messages) : out.messages[i].target = "wasm"}
Classified == parsed.variant # "None"

\* ------------------------------------------------------------- C1
\* C1: post_process_output runs its stages in the order classify, header
\* embedding, field encryption, callback signing, reply adaptation,
\* finalization; a sub-message payload that is encrypted carries its reply
\* header inside the ciphertext, and a callback signature is a tag over the
\* encrypted payload.
C1_StagesInOrder ==
    /\ \A i \in 1..Len(stages) :
          stages[i] = <<"deserialize_output", "attach_reply_headers_to_submsgs",
                        "encrypt_output", "create_callback_sig_for_submsgs",
                        "adapt_output_for_reply", "finalize_raw_output">>[i]
    /\ HasSubMsgs(raw_output) =>
          \A i \in WasmIndices(raw_output) :
             LET m == raw_output.messages[i] IN
             /\ PayloadEncrypted(m) =>
                   /\ Ran("attach_reply_headers_to_submsgs")
                   /\ IsPrefix(m.code_hash, PayloadPlaintext(m))
                   /\ AfterTriples(Drop(PayloadPlaintext(m), HashLen))
                        = parsed.messages[i].msg
             /\ IsSome(m.callback_sig) =>
                   /\ PayloadEncrypted(m)
                   /\ Unwrap(m.callback_sig) =
                        Sha256(SecretBytes(callback_secret) \o PayloadCiphertext(m)
                               \o CoinsJson(m.funds))

C1_Witness ==
    /\ pc = "done"
    /\ HasSubMsgs(raw_output)
    /\ \E i \in WasmIndices(raw_output) :
          /\ parsed.messages[i].reply_on # "Never"
          /\ IsSome(raw_output.messages[i].callback_sig)
          /\ PayloadEncrypted(raw_output.messages[i])

\* ------------------------------------------------------------- C2
AfterEncrypt ==
    pc \in {"create_callback_sig_for_submsgs", "adapt_output_for_reply",
            "finalize_raw_output", "done"}

\* a text field that holds the base64 of a ciphertext encrypted exactly once
TextEncryptedOnce(text) ==
    /\ text # <<>>
    /\ IsB64(text)
    /\ EncryptedOnce(from_base64(text))
    /\ IsCiphertextOf(io_key, from_base64(text))

AttributesEncrypted(attrs) ==
    \A i \in 1..Len(attrs) :
        attrs[i].encrypted =>
            TextEncryptedOnce(attrs[i].key) /\ TextEncryptedOnce(attrs[i].value)

\* C2: after encrypt_output succeeded on an Ok result, the payload of every
\* Wasm (sub-)message, the key and the value of every attribute flagged
\* encrypted (top level and in every event), the data field when present and
\* the acknowledgement of an IBC packet-receive are ciphertext under the
\* call's key, encrypted exactly once.
C2_PolicyFieldsEncryptedOnce ==
    (AfterEncrypt /\ raw_output.variant \in {"OkV010", "OkV1", "OkIBCPacketReceive"}) =>
        /\ \A i \in WasmIndices(raw_output) :
              /\ PayloadEncrypted(raw_output.messages[i])
              /\ EncryptedOnce(PayloadCiphertext(raw_output.messages[i]))
              /\ IsCiphertextOf(io_key, PayloadCiphertext(raw_output.messages[i]))
        /\ AttributesEncrypted(raw_output.attributes)
        /\ \A e \in 1..Len(raw_output.events) :
              AttributesEncrypted(raw_output.events[e].attributes)
        /\ IsSome(raw_output.data) =>
              /\ EncryptedOnce(Unwrap(raw_output.data))
              /\ IsCiphertextOf(io_key, Unwrap(raw_output.data))
        /\ raw_output.variant = "OkIBCPacketReceive" =>
              /\ EncryptedOnce(raw_output.acknowledgement)
              /\ IsCiphertextOf(io_key, raw_output.acknowledgement)

C2_Witness ==
    /\ pc = "create_callback_sig_for_submsgs"
    /\ raw_output.variant = "OkV1"
    /\ WasmIndices(raw_output) # {}
    /\ IsSome(raw_output.data)
    /\ \E i \in 1..Len(raw_output.attributes) : raw_output.attributes[i].encrypted
    /\ \E e \in 1..Len(raw_output.events) :
          \E i \in 1..Len(raw_output.events[e].attributes) :
              raw_output.events[e].attributes[i].encrypted

\* ------------------------------------------------------------- C3
PlainAttributesKept(before, after) ==
    /\ Len(after) = Len(before)
    /\ \A i \in 1..Len(before) :
          ~before[i].encrypted => after[i] = before[i]

\* the response an envelope carries, whichever key holds it
EnvelopeResponses(env) ==
    {Unwrap(Unwrap(env[k]).ok) :
        k \in {k \in {"v010", "v1", "ibc_basic", "ibc_packet_receive"} :
                 IsSome(env[k]) /\ IsSome(Unwrap(env[k]).ok)}}

OutsidePolicyKept(before, messages, attributes, events) ==
    /\ Len(messages) = Len(before.messages)
    /\ \A i \in 1..Len(before.messages) :
          before.messages[i].target # "wasm" =>
             /\ messages[i].target = before.messages[i].target
             /\ messages[i].msg = before.messages[i].msg
             /\ messages[i].funds = before.messages[i].funds
             /\ messages[i].id = before.messages[i].id
    /\ PlainAttributesKept(before.attributes, attributes)
    /\ Len(events) = Len(before.events)
    /\ \A e \in 1..Len(before.events) :
          /\ events[e].ty = before.events[e].ty
          /\ PlainAttributesKept(before.events[e].attributes, events[e].attributes)

\* C3: post_process_output leaves the fields outside the encryption policy
\* as they were classified: the instruction and the id of every non-Wasm
\* sub-message, every attribute whose encrypted flag is not set, and the
\* whole IBC open-channel response, at every stage and in the envelope.
C3_OutsidePolicyUnchanged ==
    Classified =>
        /\ OutsidePolicyKept(parsed, raw_output.messages, raw_output.attributes,
                             raw_output.events)
        /\ parsed.variant = "OkIBCOpenChannel" => raw_output = parsed
        /\ pc = "done" =>
              /\ \A r \in EnvelopeResponses(wasm_output) :
                    OutsidePolicyKept(parsed, r.messages, r.attributes,
                        IF "events" \in DOMAIN r THEN r.events ELSE parsed.events)
              /\ parsed.variant = "OkIBCOpenChannel" =>
                    /\ IsSome(wasm_output.ibc_open_channel)
                    /\ Unwrap(wasm_output.ibc_open_channel).ok =
                          Some(IF IsSome(parsed.version) THEN Unwrap(parsed.version)
                               ELSE <<>>)

C3_Witness ==
    /\ pc = "done"
    /\ parsed.variant = "OkV1"
    /\ \E i \in 1..Len(parsed.messages) :
          parsed.messages[i].target = "bank" /\ parsed.messages[i].id # 0
    /\ WasmIndices(parsed) # {}
    /\ \E i \in 1..Len(parsed.attributes) : ~parsed.attributes[i].encrypted

\* ------------------------------------------------------------- C4
\* the triples the header of sub-message i must hold, in order
ExpectedTriples(i) ==
    (IF parsed.messages[i].reply_on # "Never"
     THEN <<[id |-> parsed.messages[i].id, hash |-> contract_hash]>> ELSE <<>>)
    \o (IF IsSome(reply_params)
        THEN [j \in 1..Len(Unwrap(reply_params)) |->
                [id |-> Unwrap(reply_params)[j].sub_msg_id,
                 hash |-> Unwrap(reply_params)[j].recipient_contract_hash]]
        ELSE <<>>)

\* C4: once the headers are embedded, the payload of every Wasm sub-message
\* (decrypted, when already encrypted) reads: the recipient code hash, then
\* one triple MAGIC + be64(id) + current contract hash only if reply_on is
\* not Never, then one triple per reply_params entry in list order, then the
\* original payload; nothing else.
C4_HeaderFraming ==
    (Ran("attach_reply_headers_to_submsgs") /\ HasSubMsgs(raw_output)) =>
        \A i \in WasmIndices(raw_output) :
            LET plain == PayloadPlaintext(raw_output.messages[i])
                rest == Drop(plain, HashLen)
            IN /\ IsPrefix(parsed.messages[i].code_hash, plain)
               /\ StripTriples(rest) = ExpectedTriples(i)
               /\ AfterTriples(rest) = parsed.messages[i].msg
               /\ Len(plain) = HashLen
                    + Len(ExpectedTriples(i))
                        * (Len(REPLY_ENCRYPTION_MAGIC_BYTES) + IdBytes + HashLen)
                    + Len(parsed.messages[i].msg)

C4_Witness ==
    /\ pc = "encrypt_output"
    /\ HasSubMsgs(raw_output)
    /\ IsSome(reply_params) /\ Len(Unwrap(reply_params)) >= 2
    /\ \E i \in WasmIndices(raw_output) : parsed.messages[i].reply_on = "Never"
    /\ \E i \in WasmIndices(raw_output) :
          parsed.messages[i].reply_on # "Never" /\ parsed.messages[i].id > 255

\* ------------------------------------------------------------- C5
\* C5: after reply-header embedding the id of every Wasm sub-message is 0,
\* whatever its original id and reply_on, and the id of every non-Wasm
\* sub-message is the original one.
C5_WasmIdsReset ==
    (Ran("attach_reply_headers_to_submsgs") /\ HasSubMsgs(raw_output)) =>
        \A i \in 1..Len(raw_output.messages) :
            IF parsed.messages[i].target = "wasm"
            THEN raw_output.messages[i].id = 0
            ELSE raw_output.messages[i].id = parsed.messages[i].id

C5_Witness ==
    /\ pc = "encrypt_output"
    /\ HasSubMsgs(raw_output)
    /\ \E i \in WasmIndices(raw_output) :
          parsed.messages[i].reply_on = "Never" /\ parsed.messages[i].id # 0
    /\ \E i \in 1..Len(parsed.messages) :
          parsed.messages[i].target # "wasm" /\ parsed.messages[i].id # 0

\* ------------------------------------------------------------- C6
\* the receiver reads the id of the sub-message from the first triple of the
\* decrypted payload, the one that names the current contract
IdRecoverable(i) ==
    LET triples == StripTriples(Drop(PayloadPlaintext(raw_output.messages[i]), HashLen))
    IN /\ triples # <<>>
       /\ triples[1].hash = contract_hash
       /\ triples[1].id = parsed.messages[i].id
       /\ Len(triples) = 1 + (IF IsSome(reply_params) THEN Len(Unwrap(reply_params))
                              ELSE 0)

IdReset(i) ==
    /\ parsed.messages[i].target = "wasm"
    /\ raw_output.messages[i].id = 0

RestTriples(rp) ==
    [j \in 1..(Len(rp) - 1) |->
        [id |-> rp[j + 1].sub_msg_id, hash |-> rp[j + 1].recipient_contract_hash]]

\* plain reads: [entry 0's hash] [triples of entries 1.. iff full] val
ReturnPathFraming(plain, val, full) ==
    IF IsSome(reply_params)
    THEN LET rp == Unwrap(reply_params)
             rest == Drop(plain, HashLen)
         IN /\ IsPrefix(rp[1].recipient_contract_hash, plain)
            /\ IF full
               THEN StripTriples(rest) = RestTriples(rp) /\ AfterTriples(rest) = val
               ELSE rest = val
    ELSE plain = val

\* the string encrypt_serializable hands on for a serialized value
Unquoted(serialized) ==
    LET first == CHOOSE i \in 1..(Len(serialized) + 1) :
                    /\ \A j \in 1..(i - 1) : serialized[j] = Quote
                    /\ i <= Len(serialized) => serialized[i] # Quote
        last == CHOOSE i \in 0..Len(serialized) :
                    /\ \A j \in (i + 1)..Len(serialized) : serialized[j] = Quote
                    /\ i >= 1 => serialized[i] # Quote
    IN SubSeq(serialized, first, last)

\* the result field of the encrypted output, as ciphertext bytes
ResultCiphertext(out) ==
    CASE out.variant = "Err" -> from_base64(out.err.msg)
      [] out.variant \in {"QueryOkV010", "QueryOkV1"} -> from_base64(out.ok)
      [] out.variant \in {"OkV010", "OkV1"} -> Unwrap(out.data)
      [] OTHER -> out.acknowledgement
\* the serialized value behind the result field, from the classified output
ResultSerialized(out) ==
    CASE out.variant = "Err" -> SerializeValue(out.err)
      [] out.variant \in {"QueryOkV010", "QueryOkV1"} -> SerializeString(out.ok)
      [] out.variant \in {"OkV010", "OkV1"} -> SerializeBinary(Unwrap(out.data))
      [] OTHER -> SerializeBinary(out.acknowledgement)
HasResultField(out) ==
    \/ out.variant \in {"Err", "QueryOkV010", "QueryOkV1", "OkIBCPacketReceive"}
    \/ out.variant \in {"OkV010", "OkV1"} /\ IsSome(out.data)

\* C7: on the return path the plaintext encrypted for a result field (error,
\* query result, data, acknowledgement) and for the id token is, with
\* reply_params present, reply_params[0].recipient_contract_hash, then only
\* under full propagation one triple MAGIC + be64(sub_msg_id) + hash per
\* entry at index 1 and above in order, then the serialized value; with
\* reply_params absent it is the serialized value alone.
C7_ReturnPathPlaintext ==
    /\ (AfterEncrypt /\ HasResultField(raw_output)) =>
          /\ IsCiphertextOf(io_key, ResultCiphertext(raw_output))
          /\ ReturnPathFraming(decrypt_siv(io_key, ResultCiphertext(raw_output)),
                               Unquoted(ResultSerialized(parsed)), FALSE)
    /\ (pc \in {"finalize_raw_output", "done"} /\ IsSome(raw_output.internal_msg_id)
        /\ IsSome(reply_params)) =>
          /\ IsCiphertextOf(io_key, Unwrap(raw_output.internal_msg_id))
          /\ ReturnPathFraming(
                decrypt_siv(io_key, Unwrap(raw_output.internal_msg_id)),
                to_string(Unwrap(reply_params)[1].sub_msg_id),
                raw_output.variant \in {"Err", "OkV1"})

C7_Witness ==
    /\ pc = "done"
    /\ raw_output.variant = "OkV1"
    /\ IsSome(raw_output.data)
    /\ IsSome(reply_params) /\ Len(Unwrap(reply_params)) >= 2
    /\ IsSome(raw_output.internal_msg_id)
    /\ Len(StripTriples(Drop(decrypt_siv(io_key, Unwrap(raw_output.internal_msg_id)),
                             HashLen))) >= 1

\* ------------------------------------------------------------- C8
\* the hash that prefixes a result field when the call answers an ancestor
ReplyPrefix ==
    IF IsSome(reply_params) THEN Unwrap(reply_params)[1].recipient_contract_hash
    ELSE <<>>

ErrEncrypted == AfterEncrypt /\ raw_output.variant = "Err"
ErrWrapped ==
    /\ raw_output.err.kind = "obj"
    /\ IsB64(raw_output.err.msg)
    /\ IsCiphertextOf(io_key, from_base64(raw_output.err.msg))
ErrPlaintext == decrypt_siv(io_key, from_base64(raw_output.err.msg))

\* C8 as claimed: an encrypted Err is the wrapper {"generic_err":{"msg":
\* base64 ciphertext}}, and the ciphertext decrypts to the hash prefix
\* followed by the original error JSON.
C8_Original ==
    ErrEncrypted =>
        /\ ErrWrapped
        /\ ErrPlaintext = ReplyPrefix \o SerializeValue(parsed.err)

\* C8 amended: the ciphertext decrypts to the hash prefix followed by the
\* original error JSON with its leading and trailing quote characters
\* removed; for an error that is a JSON object this is the original error
\* JSON itself.
C8_ErrEncryptedUnquoted ==
    ErrEncrypted =>
        /\ ErrWrapped
        /\ ErrPlaintext = ReplyPrefix \o Unquoted(SerializeValue(parsed.err))
        /\ parsed.err.kind = "obj" =>
              ErrPlaintext = ReplyPrefix \o SerializeValue(parsed.err)

\* the scenario: Err {"generic_err":{"msg":"boom"}} with one ReplyParams entry
C8_Witness ==
    /\ ErrEncrypted
    /\ parsed.err = [kind |-> "obj", msg |-> Boom]
    /\ IsSome(reply_params) /\ Len(Unwrap(reply_params)) = 1
    /\ ErrPlaintext = Unwrap(reply_params)[1].recipient_contract_hash
            \o GenericErrOpen \o <<Quote>> \o Boom \o <<Quote>> \o GenericErrClose

\* ------------------------------------------------------------- C9
\* the value the decrypting side gets back for the result field
ResultRoundTrip ==
    LET plain == Drop(decrypt_siv(io_key, ResultCiphertext(raw_output)),
                      Len(ReplyPrefix))
    IN CASE parsed.variant = "Err" ->
                IF parsed.err.kind = "obj" THEN plain = SerializeValue(parsed.err)
                ELSE plain = parsed.err.msg
         [] parsed.variant \in {"QueryOkV010", "QueryOkV1"} -> plain = parsed.ok
         [] parsed.variant \in {"OkV010", "OkV1"} ->
                IsB64(plain) /\ from_base64(plain) = Unwrap(parsed.data)
         [] OTHER -> IsB64(plain) /\ from_base64(plain) = parsed.acknowledgement

AttributesRoundTrip(before, after) ==
    \A i \in 1..Len(before) :
        before[i].encrypted =>
            /\ decrypt_siv(io_key, from_base64(after[i].key)) = before[i].key
            /\ decrypt_siv(io_key, from_base64(after[i].value)) = before[i].value

\* C9 as claimed: decrypting any field the encryptor produced, with the same
\* key, gives back exactly the field's value (after removing the reply
\* prefix), for every variant, query result strings and error strings with
\* quote characters or JSON-escaped characters included.
C9_RoundTrip ==
    AfterEncrypt =>
        /\ HasResultField(raw_output) => ResultRoundTrip
        /\ AttributesRoundTrip(parsed.attributes, raw_output.attributes)
        /\ \A e \in 1..Len(parsed.events) :
              AttributesRoundTrip(parsed.events[e].attributes,
                                  raw_output.events[e].attributes)

\* the part of C9 the code keeps: every field but a query result or an error
\* string holding a quote or a backslash round-trips
C9_RoundTripOfUnescaped ==
    AfterEncrypt =>
        /\ (HasResultField(raw_output)
            /\ (parsed.variant \in {"QueryOkV010", "QueryOkV1"} =>
                    \A i \in 1..Len(parsed.ok) : parsed.ok[i] \notin {Quote, Backslash})
            /\ (parsed.variant = "Err" /\ parsed.err.kind = "str" =>
                    \A i \in 1..Len(parsed.err.msg) :
                        parsed.err.msg[i] \notin {Quote, Backslash}))
              => ResultRoundTrip
        /\ AttributesRoundTrip(parsed.attributes, raw_output.attributes)
        /\ \A e \in 1..Len(parsed.events) :
              AttributesRoundTrip(parsed.events[e].attributes,
                                  raw_output.events[e].attributes)

\* ------------------------------------------------------------- C11
\* the payload a Wasm message carries into encryption: for a v1 sub-message
\* the header-embedded payload, for a v0.10 message code hash and message
FinalPlaintext(variant, m) ==
    IF variant = "OkV010" THEN m.code_hash \o m.msg
    ELSE attach_reply_headers_to_v1_wasm_msg(m, m.reply_on, m.id, contract_hash,
                                             reply_params).msg

\* C11: when post_process_output succeeds on an Ok result, every outgoing
\* Wasm message of the envelope (v0.10 messages, v1 sub-messages, IBC
\* packet-receive sub-messages) carries a callback signature, and the
\* signature is the tag over the ciphertext of the message's final payload
\* (the payload after header embedding, encrypted) and the message's funds.
C11_CallbackSigOverFinalPayload ==
    (pc = "done" /\ parsed.variant \in {"OkV010", "OkV1", "OkIBCPacketReceive"}) =>
        \A r \in EnvelopeResponses(wasm_output) :
            /\ Len(r.messages) = Len(parsed.messages)
            /\ \A i \in WasmIndices(parsed) :
                  LET m == r.messages[i] IN
                  /\ m.target = "wasm"
                  /\ m.funds = parsed.messages[i].funds
                  /\ PayloadEncrypted(m)
                  /\ PayloadPlaintext(m)
                        = FinalPlaintext(parsed.variant, parsed.messages[i])
                  /\ m.callback_sig =
                        Some(Sha256(SecretBytes(callback_secret)
                                    \o PayloadCiphertext(m) \o CoinsJson(m.funds)))

C11_Witness ==
    /\ pc = "done"
    /\ parsed.variant = "OkIBCPacketReceive"
    /\ IsSome(reply_params)
    /\ \E r \in EnvelopeResponses(wasm_output) :
          \E i \in WasmIndices(parsed) :
             /\ parsed.messages[i].reply_on # "Never"
             /\ r.messages[i].funds # <<>>
             /\ IsSome(r.messages[i].callback_sig)

\* ------------------------------------------------------------- C12
NoAncestor(rp) == ~IsSome(rp) \/ Unwrap(rp) = <<>>
\* the adapter stage handed its input on as it got it
NotAdapted ==
    /\ raw_output.internal_msg_id = parsed.internal_msg_id
    /\ raw_output.internal_reply_enclave_sig = parsed.internal_reply_enclave_sig
    /\ wasm_output.internal_msg_id \in {None, parsed.internal_msg_id}
    /\ wasm_output.internal_reply_enclave_sig
            \in {None, parsed.internal_reply_enclave_sig}

\* C12: the Reply Adapter acts only when reply_params is non-empty: with
\* reply_params absent or an empty list no stage indexes entry 0 of the list
\* (the call does not panic), a call whose output classified runs to the end,
\* and the adapter adds no internal_msg_id and no internal_reply_enclave_sig.
C12_AdapterOnlyWhenNonEmpty ==
    NoAncestor(reply_params) =>
        /\ error # "panic"
        /\ (Classified /\ error = "none") => NotAdapted

\* C12, the part the code keeps: with reply_params absent the call never
\* indexes the list and the adapter adds nothing.
C12_AbsentNotAdapted ==
    ~IsSome(reply_params) =>
        /\ error # "panic"
        /\ (Classified /\ error = "none") => NotAdapted

\* C12, what the code does with an empty list: a call that reaches the
\* adapter with an Err, Ok v0.10 or Ok v1 result panics there.
C12_EmptyListPanics ==
    (IndexPanics(reply_params) /\ Ran("adapt_output_for_reply")
        /\ parsed.variant \in {"Err", "OkV010", "OkV1"})
        => (pc = "failed" /\ error = "panic")

\* ------------------------------------------------------------- C13
AnswersAncestor(rp) == IsSome(rp) /\ Unwrap(rp) # <<>>
\* the fields of a result other than the two the adapter owns
AdapterLeaves(out) ==
    [f \in DOMAIN out \ {"internal_msg_id", "internal_reply_enclave_sig"} |-> out[f]]
\* the envelope carries the adapter's id token and signature at top level
EnvelopeCarriesReplyInfo ==
    /\ IsSome(wasm_output.internal_msg_id)
    /\ IsSome(wasm_output.internal_reply_enclave_sig)
    /\ wasm_output.internal_msg_id = raw_output.internal_msg_id
    /\ wasm_output.internal_reply_enclave_sig = raw_output.internal_reply_enclave_sig
    /\ <<Unwrap(wasm_output.internal_msg_id),
          Unwrap(wasm_output.internal_reply_enclave_sig)>>
         = get_reply_info_for_output(OutputResult(raw_output), reply_params,
                calc_encryption_key(Nonce, UserPublicKey), sender_addr,
                ShouldAppendReplyParams(raw_output))
\* what the adapter is about to do changes the two internal fields only
AdapterChangesNoSubMsg ==
    (pc = "adapt_output_for_reply" /\ AdaptOutputStatus(raw_output, reply_params) = "ok")
        => AdapterLeaves(adapt_output_for_reply(raw_output, reply_params, sender_addr))
              = AdapterLeaves(raw_output)

\* C13 as stated: whenever the call answers an ancestor and the result is
\* Err, Ok v0.10 or Ok v1, the envelope carries both internal fields.
C13_Original ==
    /\ AdapterChangesNoSubMsg
    /\ (pc = "done" /\ AnswersAncestor(reply_params)
            /\ parsed.variant \in {"Err", "OkV010", "OkV1"})
          => EnvelopeCarriesReplyInfo

\* C13: when the call answers an ancestor (reply_params non-empty) and the
\* result is Ok v0.10, Ok v1, or Err of a call that is not a query, the
\* finalized envelope carries the adapter's internal_reply_enclave_sig and
\* internal_msg_id as top-level fields; the adapter changes nothing but
\* these two fields of the result, so no sub-message.
C13_EnvelopeCarriesReplyInfo ==
    /\ AdapterChangesNoSubMsg
    /\ (pc = "done" /\ AnswersAncestor(reply_params)
            /\ parsed.variant \in {"Err", "OkV010", "OkV1"}
            /\ ~(parsed.variant = "Err" /\ is_query_output))
          => EnvelopeCarriesReplyInfo

C13_Witness ==
    /\ pc = "done"
    /\ AnswersAncestor(reply_params)
    /\ parsed.variant = "Err"
    /\ ~is_query_output
    /\ parsed.internal_msg_id = Some(<<9>>)
    /\ EnvelopeCarriesReplyInfo

\* ------------------------------------------------------------- C14
\* the Reply the adapter signed and the signature it would give for addr
SignedReply ==
    ReplyOf(OutputResult(raw_output), reply_params,
            calc_encryption_key(Nonce, UserPublicKey),
            ShouldAppendReplyParams(raw_output))
ReplySigFor(addr) ==
    get_reply_info_for_output(OutputResult(raw_output), reply_params,
        calc_encryption_key(Nonce, UserPublicKey), addr,
        ShouldAppendReplyParams(raw_output))[2]
\* the tag under the callback secret over bytes, no funds
CallbackSecretTag(bytes) ==
    Sha256(SecretBytes(callback_secret) \o bytes \o CoinsJson(<<>>))
Adapted ==
    /\ pc = "done"
    /\ AnswersAncestor(reply_params)
    /\ parsed.variant \in {"Err", "OkV010", "OkV1"}

\* C14: internal_reply_enclave_sig is made with a secret bound to the
\* sender's address, not with the callback secret: for the same serialized
\* Reply another sender address gives another signature, and the signature
\* is not the callback-secret tag over the Reply's bytes.
C14_ReplySigBoundToSender ==
    Adapted =>
        /\ raw_output.internal_reply_enclave_sig = Some(ReplySigFor(sender_addr))
        /\ \A a \in {contract_addr, sender_addr, <<3>>} :
              a # sender_addr => ReplySigFor(a) # ReplySigFor(sender_addr)
        /\ ReplySigFor(sender_addr) # CallbackSecretTag(ReplyJson(SignedReply))

\* C14, what the code does: the signature is the callback-secret tag over
\* the serialized Reply, the same for every sender address.
C14_ReplySigIsCallbackTag ==
    Adapted =>
        /\ raw_output.internal_reply_enclave_sig
              = Some(CallbackSecretTag(ReplyJson(SignedReply)))
        /\ \A a \in {contract_addr, sender_addr, <<3>>} :
              ReplySigFor(a) = ReplySigFor(sender_addr)

\* ------------------------------------------------------------- callers of
\* create_callback_signature, one call after another, the collaborator
\* rotating the callback secret in between
SigAddrs == {<<1>>, <<2>>}
SigMsgs == {<<>>, <<91, 93>>, EmptyObject}
SigFunds == {<<>>, <<Coin>>, <<Coin, Coin>>}

InitSig ==
    /\ AttestIdle
    /\ pc = "idle"
    /\ output = Doc(FALSE, None, None, None, None)
    /\ reply_params = None
    /\ is_query_output = FALSE
    /\ is_ibc_output = FALSE
    /\ encrypted_context = TRUE
    /\ io_key = 1
    /\ callback_secret = 1
    /\ raw_output = NoOutput
    /\ parsed = NoOutput
    /\ error = "none"
    /\ wasm_output = EmptyWasmOutput
    /\ stages = <<>>
    /\ sig_calls = <<>>

CallCreateCallbackSignature ==
    /\ pc = "idle"
    /\ Len(sig_calls) < MaxSigCalls
    /\ \E addr \in SigAddrs, msg \in SigMsgs, funds \in SigFunds :
          sig_calls' = Append(sig_calls,
              [secret |-> SecretBytes(callback_secret), addr |-> addr, msg |-> msg,
               funds |-> funds,
               tag |-> create_callback_signature(addr, msg, funds)])
    /\ UNCHANGED <<pc, output, raw_output, reply_params, is_query_output,
                   is_ibc_output, encrypted_context, io_key, callback_secret,
                   error, wasm_output, parsed, stages>>
    /\ UNCHANGED attest_vars

\* the Key Context swaps its current callback secret
RotateCallbackSecret ==
    /\ pc = "idle"
    /\ \E e \in 1..NumKeys : e # callback_secret /\ callback_secret' = e
    /\ UNCHANGED <<pc, output, raw_output, reply_params, is_query_output,
                   is_ibc_output, encrypted_context, io_key, error, wasm_output,
                   parsed, stages, sig_calls>>
    /\ UNCHANGED attest_vars

NextSig == CallCreateCallbackSignature \/ RotateCallbackSecret

SpecSig == InitSig /\ [][NextSig]_vars

\* ------------------------------------------------------------- C10
SameSigInputs(a, b) == a.secret = b.secret /\ a.msg = b.msg /\ a.funds = b.funds
DifferInOne(a, b) ==
    \/ a.secret # b.secret /\ a.msg = b.msg /\ a.funds = b.funds
    \/ a.secret = b.secret /\ a.msg # b.msg /\ a.funds = b.funds
    \/ a.secret = b.secret /\ a.msg = b.msg /\ a.funds # b.funds

InitFinalize ==
    /\ AttestIdle
    /\ pc = "call_finalize_raw_output"
    /\ output \in {d \in Docs : Classify(d) # "none"}
    /\ raw_output = deserialize_output(output)
    /\ parsed = raw_output
    /\ reply_params = None
    /\ is_query_output \in BOOLEAN
    /\ is_ibc_output \in BOOLEAN
    /\ encrypted_context \in BOOLEAN
    /\ io_key = 1
    /\ callback_secret = 1
    /\ error = "none"
    /\ wasm_output = EmptyWasmOutput
    /\ stages = <<>>
    /\ sig_calls = <<>>

CallFinalizeRawOutput ==
    /\ pc = "call_finalize_raw_output"
    /\ pc' = "done"
    /\ stages' = Append(stages, "finalize_raw_output")
    /\ wasm_output' = finalize_raw_output(raw_output, is_query_output, is_ibc_output,
                                           encrypted_context)
    /\ UNCHANGED <<raw_output, error, parsed, Inputs>>
    /\ UNCHANGED attest_vars

NextFinalize == CallFinalizeRawOutput

SpecFinalize == InitFinalize /\ [][NextFinalize]_vars

\* ------------------------------------------------------------- C15
EnvelopeKeys ==
    {"v010", "v1", "ibc_basic", "ibc_packet_receive", "ibc_open_channel", "query"}
PopulatedKeys(env) == {k \in EnvelopeKeys : IsSome(env[k])}

EnvelopeErrs(env) ==
    {Unwrap(Unwrap(env[k]).err) :
        k \in {k \in EnvelopeKeys : IsSome(env[k]) /\ IsSome(Unwrap(env[k]).err)}}
\* {"generic_err":{"msg": err}} around the error as it was handed in
WrappedErr(err) == [kind |-> "wrapped", msg |-> err]

\* C16 as stated: without encryption the Err of the envelope is the wrapper
\* around the plaintext error, for query and non-query outputs alike.
C16_Original ==
    (pc = "done" /\ raw_output.variant = "Err") =>
        EnvelopeErrs(wasm_output)
            = {IF encrypted_context THEN raw_output.err ELSE WrappedErr(raw_output.err)}

\* C16: an Err finalized with is_msg_encrypted = false and is_query_output =
\* false is placed as the wrapper {"generic_err":{"msg": <plaintext err>}};
\* with is_msg_encrypted = true, and for a query output whatever
\* is_msg_encrypted is, the error is placed as is.
C16_PlaintextErrWrapped ==
    (pc = "done" /\ raw_output.variant = "Err") =>
        EnvelopeErrs(wasm_output)
            = {IF ~encrypted_context /\ ~is_query_output
               THEN WrappedErr(raw_output.err) ELSE raw_output.err}

C16_Witness ==
    /\ pc = "done"
    /\ raw_output.variant = "Err"
    /\ raw_output.err.kind = "str"
    /\ ~encrypted_context /\ ~is_query_output
    /\ EnvelopeErrs(wasm_output) = {WrappedErr(raw_output.err)}

\* ------------------------------------------------------------- C17
\* C17: an IBC open-channel result finalizes to an envelope whose only
\* populated key is ibc_open_channel, with Err null and ok a string: the
\* empty string for Ok(None), the response's version for Ok(Some); the two
\* internal fields are null as well.
C17_OpenChannelEnvelope ==
    (pc = "done" /\ raw_output.variant = "OkIBCOpenChannel") =>
        wasm_output =
            [EmptyWasmOutput EXCEPT !.ibc_open_channel =
                Some([ok |-> Some(IF raw_output.version = None THEN <<>>
                                  ELSE Unwrap(raw_output.version)),
                      err |-> None])]

C17_Witness ==
    /\ pc = "done"
    /\ raw_output.variant = "OkIBCOpenChannel"
    /\ raw_output.version = None
    /\ IsSome(output.Ok)
    /\ is_query_output /\ ~is_ibc_output
    /\ Unwrap(wasm_output.ibc_open_channel) = [ok |-> Some(<<>>), err |-> None]

\* ------------------------------------------------------------- C18
\* encrypt_output was the last stage to run
JustEncrypted == Ran("encrypt_output") /\ ~Ran("create_callback_sig_for_submsgs")

\* C18: encrypt_output with is_ibc_output = true on an Ok v1 result whose
\* data is present fails with InternalError and the call returns no output;
\* with data absent it succeeds and hands the result on. No envelope of an
\* IBC key carries a data field.
C18_IbcDataRejected ==
    /\ (Ran("encrypt_output") /\ is_ibc_output /\ parsed.variant = "OkV1") =>
          IF IsSome(parsed.data)
          THEN /\ pc = "failed" /\ error = "InternalError"
               /\ JustEncrypted
               /\ wasm_output = EmptyWasmOutput
          ELSE /\ error # "InternalError"
               /\ JustEncrypted =>
                     (pc = "create_callback_sig_for_submsgs" /\ error = "none")
    /\ \A k \in {"ibc_basic", "ibc_packet_receive"} :
          (IsSome(wasm_output[k]) /\ IsSome(Unwrap(wasm_output[k]).ok))
             => "data" \notin DOMAIN Unwrap(Unwrap(wasm_output[k]).ok)

C18_Witness ==
    /\ pc = "failed" /\ error = "InternalError"
    /\ parsed.variant = "OkV1" /\ IsSome(parsed.data)
    /\ is_ibc_output
    /\ WasmIndices(parsed) # {}

\* ------------------------------------------------------------- C19
\* the shape of the value under "Ok" / "ok" in the contract's bytes
OkShape == ShapeOf(output, "Ok")
LowerOkShape == ShapeOf(output, "ok")
\* the bytes deserialize into none of the seven variants
MatchesNoVariant ==
    \/ ~output.json
    \/ /\ ~IsSome(output.Err)
       /\ LowerOkShape # "string"
       /\ OkShape \notin {"string", "v010", "v1", "ibc_receive", "ibc_open_channel",
                           "absent"}

ReferenceTime == 1699088856

\* signer certificates: what webpki makes of the DER bytes
Cert(wellformed, anchored, not_before, not_after) ==
    [wellformed |-> wellformed, anchored |-> anchored,
     not_before |-> not_before, not_after |-> not_after]
GoodCert == Cert(TRUE, TRUE, ReferenceTime - 1, ReferenceTime + 1)
Certs ==
    {GoodCert,
     Cert(FALSE, TRUE, ReferenceTime - 1, ReferenceTime + 1),
     Cert(TRUE, FALSE, ReferenceTime - 1, ReferenceTime + 1),
     Cert(TRUE, TRUE, ReferenceTime - 2, ReferenceTime - 1)}

\* who signed what: the certificate's key over the report's bytes, the
\* certificate's key over other bytes, another key over the report's bytes
Signatures == {"cert_key_over_report", "cert_key_over_other", "other_key_over_report"}

\* attn_report["version"]
Version(kind, n) == [kind |-> kind, n |-> n]
Versions == {Version("absent", 0), Version("string", 4), Version("u64", 3),
             Version("u64", 4)}
PlatformInfoBlobs == {"absent", "hex", "not_hex"}
QuoteStatuses ==
    {"absent", "OK", "SW_HARDENING_NEEDED", "CONFIGURATION_AND_SW_HARDENING_NEEDED",
     "GROUP_OUT_OF_DATE", "GROUP_REVOKED", "bogus"}
\* attn_report["isvEnclaveQuoteBody"]: absent, no base64, base64 of bytes that
\* are no quote, or a quote with its enclave report and the key in report_data
QuoteBody(kind, report_ok) == [kind |-> kind, report_ok |-> report_ok, owner_key |-> <<7>>]
QuoteBodies ==
    {QuoteBody("absent", FALSE), QuoteBody("not_base64", FALSE),
     QuoteBody("malformed", FALSE), QuoteBody("quote", FALSE), QuoteBody("quote", TRUE)}
AdvisoryLists == {"absent", "malformed", "allowed", "not_allowed"}

\* the report string: no JSON, or a JSON object with these members
ReportJsons ==
    [version : Versions, platformInfoBlob : PlatformInfoBlobs,
     isvEnclaveQuoteStatus : QuoteStatuses, isvEnclaveQuoteBody : QuoteBodies,
     advisoryIDs : AdvisoryLists]
Reports == {None} \cup {Some(j) : j \in ReportJsons}

\* webpki::EndEntityCert::from
EndEntityCertFromOk(cert) == cert.wellformed
\* verify_is_valid_tls_server_cert against the embedded anchors at time
verify_is_valid_tls_server_cert(cert, time) ==
    cert.anchored /\ cert.not_before <= time /\ time <= cert.not_after
\* mutant: a signature over the report's bytes by any key verifies
verify_signature_AnyKey(cert, signature) ==
    signature \in {"cert_key_over_report", "other_key_over_report"}

\* verify_signature(RSA_PKCS1_2048_8192_SHA256, self.report.as_bytes(), signature)
verify_signature(cert, signature) == signature = "cert_key_over_report"

\* mutant: any integer version passes
VersionOk_AnyU64(version) == version.kind = "u64"

\* attn_report["version"].as_u64() is Some(4)
VersionOk(version) == version.kind = "u64" /\ version.n = 4
\* SgxQuoteStatus::from(status_string)
SgxQuoteStatusFrom(status_string) ==
    IF status_string \in {"OK", "SW_HARDENING_NEEDED",
                          "CONFIGURATION_AND_SW_HARDENING_NEEDED",
                          "GROUP_OUT_OF_DATE", "GROUP_REVOKED"}
    THEN status_string ELSE "UnknownBadStatus"
\* attestation::sgx_quote::check_advisories
check_advisories(advisory_ids) == advisory_ids # "not_allowed"

InitAttest ==
    /\ pc = "idle"
    /\ output = Doc(FALSE, None, None, None, None)
    /\ reply_params = None
    /\ is_query_output = FALSE
    /\ is_ibc_output = FALSE
    /\ encrypted_context = TRUE
    /\ io_key = 1
    /\ callback_secret = 1
    /\ raw_output = NoOutput
    /\ parsed = NoOutput
    /\ error = "none"
    /\ wasm_output = EmptyWasmOutput
    /\ stages = <<>>
    /\ sig_calls = <<>>
    /\ endorsed_report \in [cert : Certs, signature : Signatures, report : Reports]
    /\ production \in BOOLEAN
    /\ verify_pc = "parse_cert"
    /\ validated = None
    /\ verify_result = NoVerdict
    /\ checks = <<>>

\* the quote statuses both policies accept when the advisories pass
HardenedStatuses ==
    {"OK", "SW_HARDENING_NEEDED", "CONFIGURATION_AND_SW_HARDENING_NEEDED"}

\* the policy of the production build (the source names it
\* _verify_quote_status): TRUE for Ok, FALSE for Err
_verify_quote_status(report) ==
    /\ report.sgx_quote_status \in HardenedStatuses
    /\ check_advisories(report.advisory_ids)

\* mutant: the other hardware builds reject on a failed advisory check too
verify_quote_status_AdvisoriesChecked(report) ==
    /\ report.sgx_quote_status \in HardenedStatuses \cup {"GROUP_OUT_OF_DATE"}
    /\ check_advisories(report.advisory_ids)

\* the policy of the other hardware builds: GroupOutOfDate is accepted and
\* a failed advisory check is returned as Ok
verify_quote_status(report) ==
    report.sgx_quote_status \in HardenedStatuses \cup {"GROUP_OUT_OF_DATE"}

\* the policy of the build. ValidatedEpidAttestation::verify calls
\* verify_quote_status by that name, which the source defines for the
\* hardware builds without "production" only; the definition compiled for
\* production carries the name _verify_quote_status. The production build
\* is taken to apply its own definition.
QuoteStatusPolicy(report) ==
    IF production THEN _verify_quote_status(report) ELSE verify_quote_status(report)

\* ValidatedEpidAttestation as from_endorsed_report builds it
ValidatedOf(json) ==
    [sgx_quote_status |-> SgxQuoteStatusFrom(json.isvEnclaveQuoteStatus),
     sgx_quote_body |-> json.isvEnclaveQuoteBody,
     platform_info_blob |-> json.platformInfoBlob,
     advisory_ids |-> json.advisoryIDs]

\* the checks of verify, in the order its callees run them
VerifyOrder ==
    <<"parse_cert", "verify_chain", "verify_signature", "parse_report_json",
      "check_version", "parse_platform_info", "parse_quote_status",
      "parse_quote_body", "parse_advisories", "verify_quote_status",
      "verify_enclave_report", "get_owner_key">>
NextCheck(name) ==
    LET i == CHOOSE i \in 1..Len(VerifyOrder) : VerifyOrder[i] = name
    IN VerifyOrder[i + 1]

\* every error is mapped to VerificationError::ErrorGeneric on the way out
Rejected(cause) ==
    [kind |-> "Err", key |-> <<>>, err |-> "ErrorGeneric", cause |-> cause]

\* from_endorsed_report called by itself returns its own Error
Failed(cause) ==
    [kind |-> "Err", key |-> <<>>, err |-> cause, cause |-> cause]

\* one check: on success the next one, on failure the call returns the
\* error, which validate_report and verify map to ErrorGeneric when the
\* call came through them (it began with the certificate)
CheckStep(name, ok, cause) ==
    /\ verify_pc = name
    /\ checks' = Append(checks, name)
    /\ IF ok
       THEN verify_pc' = NextCheck(name) /\ UNCHANGED verify_result
       ELSE /\ verify_pc' = "rejected"
            /\ verify_result' = IF checks'[1] = "parse_cert"
                                 THEN Rejected(cause) ELSE Failed(cause)
    /\ UNCHANGED <<endorsed_report, production, pipeline_vars>>

ReportJson == Unwrap(endorsed_report.report)

\* validate_report: webpki::EndEntityCert::from(&self.cert)
ParseCert ==
    /\ CheckStep("parse_cert", EndEntityCertFromOk(endorsed_report.cert), "ErrorGeneric")
    /\ UNCHANGED validated

\* validate_report: the chain to the embedded anchors, at the fixed time
VerifyChain ==
    /\ CheckStep("verify_chain",
            verify_is_valid_tls_server_cert(endorsed_report.cert, ReferenceTime),
            "ErrorGeneric")
    /\ UNCHANGED validated

\* validate_report: the signature over self.report.as_bytes()
VerifySignature ==
    /\ CheckStep("verify_signature",
            verify_signature(endorsed_report.cert, endorsed_report.signature),
            "ErrorGeneric")
    /\ UNCHANGED validated

\* from_endorsed_report: serde_json::from_str(&endorsed_report.report)
ParseReportJson ==
    /\ CheckStep("parse_report_json", IsSome(endorsed_report.report), "serde_json::Error")
    /\ UNCHANGED validated

\* from_endorsed_report: version is a u64 and equals 4
CheckVersion ==
    /\ CheckStep("check_version", VersionOk(ReportJson.version), "ReportParseError")
    /\ UNCHANGED validated

\* from_endorsed_report: platformInfoBlob, when a string, is hex
ParsePlatformInfo ==
    /\ CheckStep("parse_platform_info", ReportJson.platformInfoBlob # "not_hex",
                 "ReportParseError")
    /\ UNCHANGED validated

\* from_endorsed_report: isvEnclaveQuoteStatus is a string
ParseQuoteStatus ==
    /\ CheckStep("parse_quote_status", ReportJson.isvEnclaveQuoteStatus # "absent",
                 "ReportParseError")
    /\ UNCHANGED validated

\* from_endorsed_report: isvEnclaveQuoteBody is a string, base64, a quote
ParseQuoteBody ==
    /\ CheckStep("parse_quote_body", ReportJson.isvEnclaveQuoteBody.kind = "quote",
                 IF ReportJson.isvEnclaveQuoteBody.kind = "malformed"
                 THEN "EpidSgxQuote::parse_from" ELSE "ReportParseError")
    /\ UNCHANGED validated

\* from_endorsed_report: advisoryIDs, when present, is a list of strings;
\* Ok(Self {..}) is returned
ParseAdvisories ==
    /\ CheckStep("parse_advisories", ReportJson.advisoryIDs # "malformed",
                 "ReportParseError")
    /\ validated' = IF ReportJson.advisoryIDs # "malformed"
                    THEN Some(ValidatedOf(ReportJson)) ELSE validated

\* ValidatedEpidAttestation::verify: verify_quote_status(self, None)?
VerifyQuoteStatus ==
    /\ CheckStep("verify_quote_status", QuoteStatusPolicy(Unwrap(validated)),
                 "NodeAuthResult")
    /\ UNCHANGED validated

\* ValidatedEpidAttestation::verify: self.sgx_quote_body.isv_enclave_report.verify()
VerifyEnclaveReport ==
    /\ CheckStep("verify_enclave_report", Unwrap(validated).sgx_quote_body.report_ok,
                 "NodeAuthResult")
    /\ UNCHANGED validated

\* verify: Ok(report_creator_public.get_owner_key())
GetOwnerKey ==
    /\ verify_pc = "get_owner_key"
    /\ checks' = Append(checks, verify_pc)
    /\ verify_pc' = "accepted"
    /\ verify_result' = [kind |-> "Ok", key |-> Unwrap(validated).sgx_quote_body.owner_key,
                         err |-> "none", cause |-> "none"]
    /\ UNCHANGED <<endorsed_report, production, validated, pipeline_vars>>

NextAttest ==
    \/ ParseCert
    \/ VerifyChain
    \/ VerifySignature
    \/ ParseReportJson
    \/ CheckVersion
    \/ ParsePlatformInfo
    \/ ParseQuoteStatus
    \/ ParseQuoteBody
    \/ ParseAdvisories
    \/ VerifyQuoteStatus
    \/ VerifyEnclaveReport
    \/ GetOwnerKey

SpecAttest == InitAttest /\ [][NextAttest]_vars

\* ------------------------------------------------------------- C20
\* what the report has to be for each of the checks to succeed
CertParses == endorsed_report.cert.wellformed
ChainValid ==
    /\ endorsed_report.cert.anchored
    /\ endorsed_report.cert.not_before <= 1699088856
    /\ 1699088856 <= endorsed_report.cert.not_after
SignatureValid == endorsed_report.signature = "cert_key_over_report"
ReportParses ==
    /\ IsSome(endorsed_report.report)
    /\ ReportJson.version = Version("u64", 4)
    /\ ReportJson.platformInfoBlob # "not_hex"
    /\ ReportJson.isvEnclaveQuoteStatus # "absent"
    /\ ReportJson.advisoryIDs # "malformed"
QuoteParses == ReportJson.isvEnclaveQuoteBody.kind = "quote"
PolicyAccepts == QuoteStatusPolicy(ValidatedOf(ReportJson))
EnclaveReportValid == ReportJson.isvEnclaveQuoteBody.report_ok
EveryCheckSucceeds ==
    /\ CertParses /\ ChainValid /\ SignatureValid
    /\ ReportParses /\ QuoteParses /\ PolicyAccepts /\ EnclaveReportValid
ChecksBefore(name) == {checks[i] : i \in 1..Len(checks)} \ {name}
Finished == verify_pc \in {"accepted", "rejected"}

\* C20: verify returns an identity key only if every check succeeded
\* (certificate parse, chain validation at the fixed reference time, report
\* signature over the report bytes, report JSON with version 4, quote body,
\* quote-status policy, enclave report); the checks run in that order, so
\* the report is parsed only after its signature verified; a failed check
\* ends the call in rejection, with no key and no later check run.
C20_AllOrNothing ==
    /\ \A i \in 1..Len(checks) :
          checks[i] = <<"parse_cert", "verify_chain", "verify_signature",
                        "parse_report_json", "check_version", "parse_platform_info",
                        "parse_quote_status", "parse_quote_body", "parse_advisories",
                        "verify_quote_status", "verify_enclave_report",
                        "get_owner_key">>[i]
    /\ (\E i \in 1..Len(checks) : checks[i] = "parse_report_json") =>
          (CertParses /\ ChainValid /\ SignatureValid)
    /\ verify_result.kind = "Ok" =>
          /\ EveryCheckSucceeds
          /\ verify_pc = "accepted" /\ Len(checks) = 12
          /\ verify_result.key = ReportJson.isvEnclaveQuoteBody.owner_key
    /\ verify_pc = "rejected" =>
          /\ ~EveryCheckSucceeds
          /\ verify_result.kind = "Err" /\ verify_result.key = <<>>
    /\ verify_result.kind = "none" => ~Finished
    /\ Finished => (verify_result.kind = "Ok" <=> EveryCheckSucceeds)

C20_Witness ==
    /\ verify_pc = "accepted"
    /\ verify_result = [kind |-> "Ok", key |-> <<7>>, err |-> "none", cause |-> "none"]
    /\ production
    /\ ReportJson.isvEnclaveQuoteStatus = "SW_HARDENING_NEEDED"

\* ------------------------------------------------- from_endorsed_report
\* ValidatedEpidAttestation::from_endorsed_report is pub: a caller outside
\* the module hands it any EndorsedEpidAttestationReport. The call is over
\* when it is rejected or, with Ok(Self) in validated, when verify_pc has
\* moved past parse_advisories.
InitFromEndorsedReport ==
    /\ pc = "idle"
    /\ output = Doc(FALSE, None, None, None, None)
    /\ reply_params = None
    /\ is_query_output = FALSE
    /\ is_ibc_output = FALSE
    /\ encrypted_context = TRUE
    /\ io_key = 1
    /\ callback_secret = 1
    /\ raw_output = NoOutput
    /\ parsed = NoOutput
    /\ error = "none"
    /\ wasm_output = EmptyWasmOutput
    /\ stages = <<>>
    /\ sig_calls = <<>>
    /\ endorsed_report \in [cert : Certs, signature : Signatures, report : Reports]
    /\ production \in BOOLEAN
    /\ verify_pc = "parse_report_json"
    /\ validated = None
    /\ verify_result = NoVerdict
    /\ checks = <<>>

NextFromEndorsedReport ==
    \/ ParseReportJson
    \/ CheckVersion
    \/ ParsePlatformInfo
    \/ ParseQuoteStatus
    \/ ParseQuoteBody
    \/ ParseAdvisories

SpecFromEndorsedReport == InitFromEndorsedReport /\ [][NextFromEndorsedReport]_vars

\* ------------------------------------------------------------- C21
\* the chain and the signature of the report in hand were verified
ChainAndSignatureVerified ==
    /\ \E i \in 1..Len(checks) : checks[i] = "verify_chain"
    /\ \E i \in 1..Len(checks) : checks[i] = "verify_signature"
    /\ CertParses /\ ChainValid /\ SignatureValid

\* C21: a ValidatedEpidAttestation value exists only as the result of a
\* successful certificate-chain and signature verification of its report:
\* no publicly callable operation produces one from a report whose chain or
\* signature was not verified.
C21_ValidatedOnlyAfterVerification ==
    IsSome(validated) => ChainAndSignatureVerified

\* what does hold: inside verify the value is built only after both passed
C21_ValidatedInsideVerify ==
    (IsSome(validated) /\ checks[1] = "parse_cert") => ChainAndSignatureVerified

\* a value built from a report signed by another key
C21_UnverifiedValue ==
    /\ IsSome(validated)
    /\ endorsed_report.signature = "other_key_over_report"
    /\ ~endorsed_report.cert.anchored

\* ------------------------------------------------------------- C22
\* the report is JSON whose version is not the integer 4
VersionNotFour ==
    /\ IsSome(endorsed_report.report)
    /\ \/ ReportJson.version.kind \in {"absent", "string"}
       \/ ReportJson.version.n # 4
LastCheck == checks[Len(checks)]

\* C22 as stated: a report whose version is not 4, not an integer or absent
\* is always rejected and the error reported is ReportParseError, whatever
\* the chain, the signature and the other fields are.
C22_Original ==
    (Finished /\ VersionNotFour /\ CertParses /\ ChainValid /\ SignatureValid) =>
        /\ verify_result.kind = "Err"
        /\ verify_result.err = "ReportParseError"

\* C22 as the code has it: such a report is always rejected, with no key;
\* when chain and signature are valid the call ends at the version check,
\* whose ReportParseError from_endorsed_report returns and which
\* validate_report and verify replace by ErrorGeneric.
C22_VersionGate ==
    /\ (Finished /\ VersionNotFour) =>
          /\ verify_pc = "rejected"
          /\ verify_result.kind = "Err" /\ verify_result.key = <<>>
          /\ ~IsSome(validated)
    /\ (Finished /\ VersionNotFour /\ CertParses /\ ChainValid /\ SignatureValid) =>
          /\ LastCheck = "check_version"
          /\ verify_result.cause = "ReportParseError"
          /\ verify_result.err =
                IF checks[1] = "parse_cert" THEN "ErrorGeneric" ELSE "ReportParseError"
    /\ (IsSome(endorsed_report.report) /\ ~VersionNotFour) =>
          (checks # <<>> => LastCheck # "check_version") \/ verify_pc # "rejected"

C22_Witness ==
    /\ verify_pc = "rejected"
    /\ endorsed_report.cert = GoodCert
    /\ endorsed_report.signature = "cert_key_over_report"
    /\ IsSome(endorsed_report.report)
    /\ ReportJson.version = Version("u64", 3)
    /\ ReportJson.isvEnclaveQuoteStatus = "OK"
    /\ ReportJson.isvEnclaveQuoteBody = QuoteBody("quote", TRUE)
    /\ verify_result = Rejected("ReportParseError")

\* called by itself, from_endorsed_report reports the ReportParseError
C22_DirectCallWitness ==
    /\ verify_pc = "rejected"
    /\ checks = <<"parse_report_json", "check_version">>
    /\ ReportJson.version = Version("absent", 0)
    /\ verify_result = Failed("ReportParseError")

\* ------------------------------------------------------------- C23
StatusString == ReportJson.isvEnclaveQuoteStatus
PolicyRan == \E i \in 1..Len(checks) : checks[i] = "verify_quote_status"
PolicyAccepted ==
    /\ PolicyRan
    /\ ~(verify_pc = "rejected" /\ LastCheck = "verify_quote_status")
AdvisoriesPass == ReportJson.advisoryIDs \in {"absent", "allowed"}

C23_StrictWitness ==
    /\ production
    /\ verify_pc = "rejected" /\ LastCheck = "verify_quote_status"
    /\ StatusString = "GROUP_OUT_OF_DATE"

\* ------------------------------------------------------------- key rotation
\* The Key Context swaps its "current" io exchange key or callback secret
\* while a post_process_output call is in flight. The stages read
\* KEY_MANAGER anew: calc_encryption_key in encrypt_output,
\* encrypt_v1_non_result_fields and adapt_output_for_reply,
\* create_callback_signature at every signature.
InFlight == pc \in {StageOrder[i] : i \in 1..Len(StageOrder)}

SwapIoKey ==
    /\ InFlight
    /\ io_key < NumKeys
    /\ io_key' = io_key + 1
    /\ UNCHANGED <<pc, output, raw_output, reply_params, is_query_output,
                   is_ibc_output, encrypted_context, callback_secret, error,
                   wasm_output, parsed, stages, sig_calls>>
    /\ UNCHANGED attest_vars

SwapCallbackSecret ==
    /\ InFlight
    /\ callback_secret < NumKeys
    /\ callback_secret' = callback_secret + 1
    /\ UNCHANGED <<pc, output, raw_output, reply_params, is_query_output,
                   is_ibc_output, encrypted_context, io_key, error,
                   wasm_output, parsed, stages, sig_calls>>
    /\ UNCHANGED attest_vars

NextRotation ==
    \/ DeserializeOutput
    \/ AttachReplyHeaders
    \/ EncryptOutput
    \/ CreateCallbackSig
    \/ AdaptOutputForReply
    \/ FinalizeRawOutput
    \/ SwapIoKey
    \/ SwapCallbackSecret

SpecRotation == Init /\ [][NextRotation]_vars

\* ------------------------------------------------------------- C24
\* the io key epoch a ciphertext was made under, the callback secret a
\* signature was made with
KeyOf(c) == CHOOSE k \in 1..NumKeys : c[1] = TagSym(k)
SecretOf(sig) == SubSeq(sig, 2, 1 + SecretLen)
EncryptedWasm(out) == {i \in WasmIndices(out) : PayloadEncrypted(out.messages[i])}
SignedWasm(out) == {i \in WasmIndices(out) : IsSome(out.messages[i].callback_sig)}
KeysInResult ==
    {KeyOf(PayloadCiphertext(raw_output.messages[i])) : i \in EncryptedWasm(raw_output)}
    \cup (IF HasResultField(raw_output)
          THEN {KeyOf(ResultCiphertext(raw_output))} ELSE {})
    \cup (IF Adapted THEN {KeyOf(Unwrap(raw_output.internal_msg_id))} ELSE {})
SecretsInResult ==
    {SecretOf(Unwrap(raw_output.messages[i].callback_sig)) : i \in SignedWasm(raw_output)}
    \cup (IF Adapted
          THEN {SecretOf(Unwrap(raw_output.internal_reply_enclave_sig))} ELSE {})

\* C24: every read of key material inside one post_process_output call
\* observes one Key Context snapshot, also when the current keys are
\* rotated meanwhile: all fields of one result are encrypted under one key
\* and all its signatures use one callback secret.
C24_OneSnapshotPerCall ==
    pc = "done" =>
        /\ Cardinality(KeysInResult) <= 1
        /\ Cardinality(SecretsInResult) <= 1

\* the result field under the first key, the id token under the second
C24_TwoKeysInOneResult ==
    /\ pc = "done" /\ Adapted /\ HasResultField(raw_output)
    /\ KeyOf(ResultCiphertext(raw_output)) = 1
    /\ KeyOf(Unwrap(raw_output.internal_msg_id)) = 2

\* a sub-message signed with the first secret, the reply with the second
C24_TwoSecretsInOneResult ==
    /\ pc = "done" /\ Adapted
    /\ \E i \in SignedWasm(raw_output) :
          SecretOf(Unwrap(raw_output.messages[i].callback_sig)) = SecretBytes(1)
    /\ SecretOf(Unwrap(raw_output.internal_reply_enclave_sig)) = SecretBytes(2)

\* ------------------------------------------------------------- C25
\* the bytes under internal_reply_enclave_sig: the digest input without the
\* callback secret in front and the empty funds list behind
SignedReplyJson ==
    LET sig == Unwrap(raw_output.internal_reply_enclave_sig)
    IN SubSeq(sig, 2 + SecretLen, Len(sig) - Len(CoinsJson(<<>>)))

C25_ErrWitness ==
    /\ Adapted
    /\ parsed.variant = "Err"
    /\ Len(Unwrap(reply_params)) = 2

\* ------------------------------------------------------------- C26
\* two create_callback_signature calls that differ in the contract address only
SameButAddr(a, b) == SameSigInputs(a, b) /\ a.addr # b.addr

\* C26: the callback signature binds the sending contract, being
\* Hash(enclave secret | sender (current contract) | message | sent funds):
\* for the same secret, message and funds two different contract addresses
\* yield different signatures.
C26_SignatureBindsContract ==
    \A i, j \in 1..Len(sig_calls) :
        SameButAddr(sig_calls[i], sig_calls[j]) =>
            sig_calls[i].tag # sig_calls[j].tag

\* what the code does: the digest is over secret, message and funds, the
\* address is not in it
C26_AddressNotInDigest ==
    \A i \in 1..Len(sig_calls) :
        sig_calls[i].tag =
            Sha256(sig_calls[i].secret \o sig_calls[i].msg
                   \o CoinsJson(sig_calls[i].funds))

C26_SameTagForTwoContracts ==
    \E i, j \in 1..Len(sig_calls) :
        /\ SameButAddr(sig_calls[i], sig_calls[j])
        /\ sig_calls[i].funds = <<Coin>>
        /\ sig_calls[i].tag = sig_calls[j].tag

\* ------------------------------------------- manipulate_callback_sig_for_plaintext
\* mutant: the funds are not signed
update_callback_sig_NoFunds(addr, wasm_msg) ==
    [wasm_msg EXCEPT !.callback_sig =
        Some(create_callback_signature(addr, wasm_msg.msg, <<>>))]

\* update_callback_sig: the tag over msg.0 and to_v010_coins(funds)
update_callback_sig(addr, wasm_msg) ==
    [wasm_msg EXCEPT !.callback_sig =
        Some(create_callback_signature(addr, wasm_msg.msg, wasm_msg.funds))]

\* the match of manipulate_callback_sig_for_plaintext on the parsed output
manipulate_callback_sig_for_plaintext(addr, out) ==
    IF out.variant \in {"OkV1", "OkIBCPacketReceive"}
    THEN [out EXCEPT !.messages =
            [i \in 1..Len(@) |->
                IF @[i].target = "wasm" THEN update_callback_sig(addr, @[i])
                ELSE @[i]]]
    ELSE out

InitPlaintext ==
    /\ AttestIdle
    /\ pc = "manipulate_callback_sig_for_plaintext"
    /\ output \in Docs
    /\ reply_params = None
    /\ is_query_output = FALSE
    /\ is_ibc_output = FALSE
    /\ encrypted_context = FALSE
    /\ io_key = 1
    /\ callback_secret \in 1..NumKeys
    /\ raw_output = NoOutput
    /\ parsed = NoOutput
    /\ error = "none"
    /\ wasm_output = EmptyWasmOutput
    /\ stages = <<>>
    /\ sig_calls = <<>>

\* the whole function: serde_json::from_slice, the match, Ok(raw_output)
ManipulateCallbackSigForPlaintext ==
    /\ pc = "manipulate_callback_sig_for_plaintext"
    /\ stages' = Append(stages, pc)
    /\ IF Classify(output) = "none"
       THEN Fail("FailedToDeserialize")
       ELSE /\ pc' = "done"
            /\ parsed' = deserialize_output(output)
            /\ raw_output' = manipulate_callback_sig_for_plaintext(
                                contract_addr, deserialize_output(output))
            /\ UNCHANGED <<error, wasm_output>>
    /\ UNCHANGED Inputs
    /\ UNCHANGED attest_vars

NextPlaintext == ManipulateCallbackSigForPlaintext

SpecPlaintext == InitPlaintext /\ [][NextPlaintext]_vars

\* ------------------------------------------------------------- C27
\* C27: manipulate_callback_sig_for_plaintext sets, for Ok v1 and IBC
\* packet-receive outputs, the callback signature of every Wasm sub-message
\* to the tag over that sub-message's unmodified plaintext payload and its
\* funds, and changes nothing else: payloads, ids, non-Wasm sub-messages and
\* every other variant are returned as parsed; bytes that do not parse fail
\* with FailedToDeserialize.
C27_PlaintextCallbackSig ==
    /\ pc = "done" =>
          /\ Classify(output) # "none"
          /\ [raw_output EXCEPT !.messages = parsed.messages] = parsed
          /\ Len(raw_output.messages) = Len(parsed.messages)
          /\ \A i \in 1..Len(parsed.messages) :
                LET before == parsed.messages[i]
                    after == raw_output.messages[i]
                IN IF parsed.variant \in {"OkV1", "OkIBCPacketReceive"}
                      /\ before.target = "wasm"
                   THEN /\ [after EXCEPT !.callback_sig = before.callback_sig] = before
                        /\ after.msg = EmptyObject
                        /\ after.callback_sig =
                              Some(Sha256(SecretBytes(callback_secret) \o before.msg
                                          \o CoinsJson(before.funds)))
                   ELSE after = before
    /\ pc = "failed" =>
          /\ Classify(output) = "none"
          /\ error = "FailedToDeserialize"
          /\ raw_output = NoOutput

C27_Witness ==
    /\ pc = "done"
    /\ parsed.variant = "OkIBCPacketReceive"
    /\ \E i, j \in 1..Len(parsed.messages) :
          /\ parsed.messages[i].target = "wasm"
          /\ parsed.messages[i].funds # <<>>
          /\ IsSome(raw_output.messages[i].callback_sig)
          /\ parsed.messages[j].target = "bank"

C27_V010Witness ==
    /\ pc = "done"
    /\ parsed.variant = "OkV010"
    /\ \E i \in 1..Len(parsed.messages) : parsed.messages[i].target = "wasm"

\* ------------------------------------------------------------- C28
\* C28: when the call answers no ancestor (reply_params absent) the
\* finalized envelope's internal_reply_enclave_sig and internal_msg_id are
\* null whatever bytes the contract produced: values under these two keys
\* of the contract's raw output never reach the envelope.
C28_InternalFieldsNullWithoutReply ==
    (pc = "done" /\ reply_params = None) =>
        /\ wasm_output.internal_reply_enclave_sig = None
        /\ wasm_output.internal_msg_id = None

\* what the code does: without reply_params the envelope carries the two
\* values as the contract wrote them, except under the query key and for
\* the IBC variants, which have no such fields
C28_ContractValuesCopied ==
    (pc = "done" /\ reply_params = None) =>
        IF parsed.variant \in {"OkV010", "OkV1"}
           \/ (parsed.variant = "Err" /\ ~is_query_output)
        THEN /\ wasm_output.internal_reply_enclave_sig = output.internal_reply_enclave_sig
             /\ wasm_output.internal_msg_id = output.internal_msg_id
        ELSE /\ wasm_output.internal_reply_enclave_sig = None
             /\ wasm_output.internal_msg_id = None

C28_ContractValueInEnvelope ==
    /\ pc = "done" /\ reply_params = None
    /\ output.internal_reply_enclave_sig = Some(<<9>>)
    /\ wasm_output.internal_reply_enclave_sig = Some(<<9>>)
    /\ wasm_output.internal_msg_id = Some(<<9>>)
    /\ IsSome(wasm_output.v1)

\* ------------------------------------------------------------- C29
\* C29: finalize_raw_output places an Err result under query when
\* is_query_output is true and otherwise always under v010, whatever is_ibc
\* is and whichever schema the contract uses, so the Err slots of v1,
\* ibc_basic, ibc_packet_receive and ibc_open_channel are never populated;
\* in the query case the Err's internal_msg_id and
\* internal_reply_enclave_sig are not copied to the envelope.
C29_ErrPlacement ==
    pc = "done" =>
        /\ \A k \in {"v1", "ibc_basic", "ibc_packet_receive", "ibc_open_channel"} :
              IsSome(wasm_output[k]) => Unwrap(wasm_output[k]).err = None
        /\ raw_output.variant = "Err" =>
              IF is_query_output
              THEN /\ PopulatedKeys(wasm_output) = {"query"}
                   /\ Unwrap(wasm_output.query).ok = None
                   /\ Unwrap(wasm_output.query).err = Some(raw_output.err)
                   /\ wasm_output.internal_msg_id = None
                   /\ wasm_output.internal_reply_enclave_sig = None
              ELSE /\ PopulatedKeys(wasm_output) = {"v010"}
                   /\ Unwrap(wasm_output.v010).ok = None
                   /\ IsSome(Unwrap(wasm_output.v010).err)
                   /\ wasm_output.internal_msg_id = raw_output.internal_msg_id
                   /\ wasm_output.internal_reply_enclave_sig
                         = raw_output.internal_reply_enclave_sig

C29_Witness ==
    /\ pc = "done"
    /\ raw_output.variant = "Err"
    /\ is_query_output /\ is_ibc_output
    /\ raw_output.internal_msg_id = Some(<<9>>)
    /\ wasm_output.internal_msg_id = None
    /\ IsSome(wasm_output.query)

C29_IbcWitness ==
    /\ pc = "done"
    /\ raw_output.variant = "Err"
    /\ ~is_query_output /\ is_ibc_output
    /\ IsSome(wasm_output.v010)

\* ------------------------------------------------------------- C30
\* the triples of the ancestors at index 1 and above, as bytes
AncestorTriples(rp) ==
    Concat([j \in 1..(Len(rp) - 1) |->
        REPLY_ENCRYPTION_MAGIC_BYTES \o to_be_bytes(rp[j + 1].sub_msg_id)
            \o rp[j + 1].recipient_contract_hash])
\* encrypted attributes decrypt to the key and the value alone
NoPrefixOnAttributes(before, after) ==
    \A i \in 1..Len(before) :
        before[i].encrypted =>
            /\ decrypt_siv(io_key, from_base64(after[i].key)) = before[i].key
            /\ decrypt_siv(io_key, from_base64(after[i].value)) = before[i].value
            /\ Len(from_base64(after[i].key)) = 1 + Len(before[i].key)
            /\ Len(from_base64(after[i].value)) = 1 + Len(before[i].value)

C30_V010Witness ==
    /\ pc = "done"
    /\ IsSome(reply_params) /\ Len(Unwrap(reply_params)) = 2
    /\ parsed.variant = "OkV010"
    /\ IsSome(raw_output.internal_msg_id)

====
